------------------------------ MODULE MCServices -------------------------------
(* Sessions and handles, or one request and its answer, or the descriptors   *)
(* of files, or the path of one: Init chooses which, and the others do not   *)
(* move.  (A request changes no session, but for OutSession.)                *)
EXTENDS IpcSession, IpcMessage, FsDevice, FsPath, TLC

CONSTANTS
  o1, o2,
  MaxPath        \* bound: the length of a path

VARIABLE part

(* The program's objects are alike.  (Handles are numbers, and 0 is none.) *)
SameObjects == Permutations(Objects)

(* None or some of everything, with every alignment of the raw data and one  *)
(* size that is no whole number of words; the object ids of a domain follow  *)
(* data of whole words.                                                      *)
SmallRequests ==
  {q \in [pid : BOOLEAN, copy : 0..1, move : 0..1, instatic : {0, 2}, in : 0..1, out : 0..1,
          exch : 0..1, outstatic : {0, 1, 3}, raw : {16, 19}, domain : BOOLEAN, oids : {0, 2}] :
     IF q.domain THEN q.oids > 0 => q.raw % 4 = 0 ELSE q.oids = 0}

(* More than eight handles among them. *)
SmallReplies ==
  {p \in [pid : BOOLEAN, copy : {0, 1, 9}, move : {0, 1}, statics : {0, 1}, bufs : {0, 1},
          raw : {16}, domain : BOOLEAN, oids : {0, 1, 9}] : p.domain \/ p.oids = 0}

AnyRequest == CHOOSE q \in SmallRequests : TRUE

(* The requests whose answer is looked at, a domain's and another: the        *)
(* request leaves no more in the buffer than the answer covers or skips.     *)
Answered == {q \in SmallRequests : q.pid /\ q.copy = 1 /\ q.in = 1 /\ q.exch = 1
                                    /\ q.out = 0 /\ q.raw = 16 /\ q.outstatic = 1}

(* One name in two spellings, and distances of which the last does not fit   *)
(* an int of the model.                                                      *)
MCNames == {"sd", "SD"}
MCLower == [n \in MCNames |-> "sd"]
MCMoves == -1..2

(* Every path up to the bound. *)
MCArgs == UNION {[1..n -> Chars] : n \in 0..MaxPath}

-------------------------------------------------------------------------------
allvars == <<vars, msgvars, fsvars, pathvars, part>>

MCInit ==
  /\ part \in {"session", "message", "files", "path"}
  /\ rq \in IF part = "message" THEN Requests ELSE {AnyRequest}
  /\ size \in [File -> IF part = "files" THEN {-1, 1} ELSE {-1}]
  /\ arg \in IF part = "path" THEN Args ELSE {<<>>}
  /\ Init /\ MsgInit /\ FsInit /\ PathInit

MCNext ==
  /\ \/ part = "session" /\ Next /\ UNCHANGED <<msgvars, fsvars, pathvars>>
     \/ part = "message" /\ ProcessRequest /\ UNCHANGED <<vars, fsvars, pathvars>>
     \/ /\ part = "message" /\ rq \in Answered /\ Answer
        /\ UNCHANGED <<vars, fsvars, pathvars>>
     \/ part = "files" /\ FsNext /\ UNCHANGED <<vars, msgvars, pathvars>>
     \/ part = "path" /\ PathNext /\ UNCHANGED <<vars, msgvars, fsvars>>
  /\ UNCHANGED part

MCSpec == MCInit /\ [][MCNext]_allvars
===============================================================================
