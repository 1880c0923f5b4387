--------------------------- MODULE MCWorkingFiles ---------------------------
(* Small instances of WorkingFiles for TLC: a VHDL and a SystemVerilog      *)
(* document, or the VHDL one alone.                                         *)
EXTENDS WorkingFiles

CONSTANTS vhd, sv

VhdlAndSv == {vhd, sv}
SvOnly    == {sv}
VhdlOnly  == {vhd}
NoFiles   == {}
=============================================================================
