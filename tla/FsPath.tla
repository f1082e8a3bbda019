-------------------------------- MODULE FsPath ---------------------------------
(*****************************************************************************)
(* _inner_ProcessPath (fs_Device.cpp): a path is split into the name of a    *)
(* device and a path on it, a character at a time.  A path is a sequence of  *)
(* characters; all but the slash and the colon are alike.                    *)
(*****************************************************************************)
EXTENDS Integers, Sequences, FiniteSets

CONSTANTS
  Chars,         \* the characters of paths
  Args           \* the paths it is called with

ASSUME ArgsAssumption == "/" \in Chars /\ Args \subseteq Seq(Chars)

VARIABLES
  arg,           \* path
  read,          \* i
  imount,        \* the length of the name, -1 behind the colon
  mount,
  processed,     \* processed_path
  where          \* in the loop, or what was returned

pathvars == <<arg, read, imount, mount, processed, where>>

PathInit ==
  /\ arg \in Args /\ read = 0 /\ imount = 0
  /\ mount = <<>> /\ processed = <<>> /\ where = "loop"

Character == IF read < Len(arg) THEN arg[read + 1] ELSE "end"

SlashAt(p, k) == k \in 1..Len(p) /\ p[k] = "/"

(* The loop leaves at the first character that is out of place. *)
Refuse ==
  /\ where' = "refused" /\ mount' = <<>> /\ processed' = <<>>
  /\ UNCHANGED <<arg, read, imount>>

(* A slash is dropped before another one, and must not be in the name. *)
Slash ==
  /\ where = "loop" /\ Character = "/"
  /\ \/ imount > 0 /\ Refuse
     \/ /\ imount <= 0 /\ read' = read + 1
        /\ processed' = IF SlashAt(arg, read + 2) THEN processed ELSE Append(processed, "/")
        /\ UNCHANGED <<arg, imount, mount, where>>

(* Faulty variant: a path without a name keeps its colons. *)
Colon_Any ==
  /\ where = "loop" /\ Character = ":"
  /\ imount' = -1 /\ read' = read + 1
  /\ UNCHANGED <<arg, mount, processed, where>>

(* The colon ends the name, which must not be empty. *)
Colon ==
  /\ where = "loop" /\ Character = ":"
  /\ \/ imount <= 0 /\ Refuse
     \/ /\ imount > 0 /\ imount' = -1 /\ read' = read + 1
        /\ UNCHANGED <<arg, mount, processed, where>>

Letter ==
  /\ where = "loop" /\ read < Len(arg) /\ Character \notin {"/", ":"}
  /\ IF imount = -1 THEN processed' = Append(processed, Character) /\ UNCHANGED <<mount, imount>>
     ELSE mount' = Append(mount, Character) /\ imount' = imount + 1 /\ UNCHANGED processed
  /\ read' = read + 1
  /\ UNCHANGED <<arg, where>>

(* The end of the path: a name alone is the root of its device. *)
Return ==
  /\ where = "loop" /\ read = Len(arg) /\ where' = "valid"
  /\ processed' = IF mount # <<>> /\ processed = <<>> THEN <<"/">> ELSE processed
  /\ UNCHANGED <<arg, read, imount, mount>>

PathNext == Slash \/ Colon \/ Letter \/ Return

PathSpec == PathInit /\ [][PathNext]_pathvars

-------------------------------------------------------------------------------
(* The reference, by positions.  The first n characters of p are slashes, a  *)
(* name from f to before e, and then nothing or one colon and the path.      *)
Splits(p, n, f, e) ==
  /\ f <= e /\ e <= n + 1
  /\ \A k \in 1..(f - 1) : p[k] = "/"
  /\ \A k \in f..(e - 1) : p[k] \notin {"/", ":"}
  /\ e <= n => f < e /\ p[e] = ":" /\ \A k \in (e + 1)..n : p[k] # ":"

(* What is behind the colon at e, with every run of slashes as one. *)
Kept(p, n, e) == {k \in (e + 1)..n : ~(p[k] = "/" /\ SlashAt(p, k + 1))}

(* r is what p has at the positions K, in their order. *)
Selects(r, p, K) ==
  /\ Len(r) = Cardinality(K)
  /\ \A k \in K : r[Cardinality({l \in K : l <= k})] = p[k]

(* _inner_ProcessPath refuses what is no path of a device, and splits the    *)
(* rest as the reference does: the name before the one colon, and, if the    *)
(* name is where the path begins, what is behind the colon with every run of *)
(* slashes as one, or the root.  (Slashes before the name are let through,   *)
(* and one of them is put in front of what is behind the colon.)             *)
PathIsSplit ==
  LET n == Len(arg) IN
  /\ where = "valid" =>
       \E f, e \in 1..(n + 1) :
         /\ Splits(arg, n, f, e) /\ mount = SubSeq(arg, f, e - 1)
         /\ f = 1 /\ mount # <<>> =>
              IF Kept(arg, n, e) = {} THEN processed = <<"/">>
              ELSE Selects(processed, arg, Kept(arg, n, e))
  /\ where = "refused" => ~\E f, e \in 1..(n + 1) : Splits(arg, n, f, e)
===============================================================================
