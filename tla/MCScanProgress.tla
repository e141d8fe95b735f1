---------------------------- MODULE MCScanProgress ----------------------------
(* Two scans for ScanProgress: objects of one and of several directories,  *)
(* with and without extension, empty ones, equal sizes, ages on both sides *)
(* of a bound.                                                             *)
EXTENDS ScanProgress

CONSTANTS s1, s2

Object(key, dir, ext, class, size, age) ==
  [key |-> key, dir |-> dir, ext |-> ext, class |-> class, size |-> size, age |-> age]

Few  == {Object("logs",     NoDir,  NoExt,  NoClass,    0, 24)}
Some == {Object("logs/a.x", "logs", ".x",   "STANDARD", 3, 23),
         Object("logs/b.x", "logs", ".x",   "GLACIER",  4, 8760),
         Object("c/d.e/f",  "c",    NoExt,  NoClass,    7, 24)}

SomeAndFew == [s \in {s1, s2} |-> IF s = s1 THEN Some ELSE Few]
=============================================================================
