-------------------------------- MODULE MCParser -------------------------------
(***************************************************************************)
(* Files for Parser: four without a syntax error, every file that one edit *)
(* of a token makes of them, and all the short ones.                       *)
(***************************************************************************)
EXTENDS Parser

CONSTANT ShortFile   \* bound: the length up to which every file is parsed

(* library x; entity e is begin p; end entity e;                           *)
(* architecture a of e is begin p; end architecture;                       *)
EntityFile ==
  <<"library", "identifier", "semicolon",
    "entity", "identifier", "is", "begin", "identifier", "semicolon",
    "end", "entity", "identifier", "semicolon",
    "architecture", "identifier", "of", "identifier", "is", "begin",
    "identifier", "semicolon", "end", "architecture", "semicolon">>

(* architecture a of e is begin l: process is variable v: t range u'range; *)
(* begin loop null; end loop; end process l; m: entity f; end;             *)
ArchitectureFile ==
  <<"architecture", "identifier", "of", "identifier", "is", "begin",
    "identifier", "colon", "process", "is",
    "variable", "identifier", "colon", "identifier",
    "range", "identifier", "tick", "range", "semicolon",
    "begin", "loop", "null", "semicolon", "end", "loop", "semicolon",
    "end", "process", "identifier", "semicolon",
    "identifier", "colon", "entity", "identifier", "semicolon",
    "end", "semicolon">>

(* package p is end package p; architecture a of e is                      *)
(* variable v: t range x to null; begin l: c; end;                         *)
PackageFile ==
  <<"package", "identifier", "is", "end", "package", "identifier", "semicolon",
    "architecture", "identifier", "of", "identifier", "is",
    "variable", "identifier", "colon", "identifier",
    "range", "identifier", "to", "null", "semicolon",
    "begin", "identifier", "colon", "identifier", "semicolon",
    "end", "semicolon">>

(* architecture a of e is begin l: if x generate begin p; end generate l;  *)
(* process begin if x then null; end if; end process; end;                 *)
GenerateFile ==
  <<"architecture", "identifier", "of", "identifier", "is", "begin",
    "identifier", "colon", "if", "identifier", "generate", "begin",
    "identifier", "semicolon", "end", "generate", "identifier", "semicolon",
    "process", "begin", "if", "identifier", "then", "null", "semicolon",
    "end", "if", "semicolon", "end", "process", "semicolon",
    "end", "semicolon">>

Before(f, i) == SubSeq(f, 1, i - 1)

After(f, i) == SubSeq(f, i + 1, Len(f))

Edits(f) ==
  {f}
  \cup {Before(f, i) \o After(f, i) : i \in DOMAIN f}
  \cup {Before(f, i) \o <<k>> \o After(f, i) : i \in DOMAIN f, k \in Kinds}
  \cup {Before(f, i) \o <<k>> \o After(f, i - 1) : i \in 1 .. Len(f) + 1, k \in Kinds}

MCFiles ==
  UNION {Edits(f) : f \in {EntityFile, ArchitectureFile, PackageFile, GenerateFile}}
  \cup UNION {[1 .. n -> Kinds] : n \in 0 .. ShortFile}
================================================================================
