------------------------------- MODULE FloraLog --------------------------------
(*****************************************************************************)
(* The log service of the flora daemon (flora_ILogService.cpp, flora_Log.cpp,*)
(* Main.cpp) and the viewer Fauna on the other end of its socket             *)
(* (Program.cs).  A message is sent in three sends by one of the threads of  *)
(* the server, which take no lock; the viewer reads a header and a string    *)
(* and takes every read for a whole one.  The socket is external.  The       *)
(* stream is a sequence of words, which stand for the fields: two for the    *)
(* header, one for the length, and the text.                                 *)
(*****************************************************************************)
EXTENDS Naturals, Sequences

CONSTANTS
  Servers,       \* the threads of the ServerManager
  Messages,
  TextLen        \* the length of the text of each message

ASSUME TextAssumption == TextLen \in [Messages -> Nat]

VARIABLES
  stream,        \* external: what was sent
  arrived,       \* external: how much of it has arrived
  up,            \* external: whether there is a connection
  todo,          \* the messages nobody has asked to write yet
  srv,           \* the threads: what is sent next, and of which message
  ok,            \* the messages whose Write returned 0
  pos,           \* how much the viewer has read
  view,          \* where the viewer is, with the header and the length
  shown,         \* what it has shown
  torn           \* history: two writes overlapped, or a read came short

logvars == <<stream, arrived, up, todo, srv, ok, pos, view, shown, torn>>

Nobody == [next |-> "idle", m |-> 0]
Waiting == [at |-> "header", id |-> 0, type |-> 0, len |-> 0]

LogInit ==
  /\ stream = <<>> /\ arrived = 0 /\ up \in BOOLEAN
  /\ todo = Messages /\ srv = [s \in Servers |-> Nobody] /\ ok = {}
  /\ pos = 0 /\ view = Waiting /\ shown = {} /\ torn = FALSE

Text(m) == [i \in 1..TextLen[m] |-> <<"text", m, i>>]

-------------------------------------------------------------------------------
(* A client's Write reaches a thread. *)
LogWrite(s, m) ==
  /\ srv[s] = Nobody /\ m \in todo
  /\ todo' = todo \ {m}
  /\ srv' = [srv EXCEPT ![s] = [next |-> "header", m |-> m]]
  /\ torn' = (torn \/ \E r \in Servers : srv[r] # Nobody)
  /\ UNCHANGED <<stream, arrived, up, ok, pos, view, shown>>

(* Write before Initialize, or after one that failed. *)
WriteRefused(m) ==
  /\ m \in todo /\ todo' = todo \ {m}
  /\ UNCHANGED <<stream, arrived, up, srv, ok, pos, view, shown, torn>>

(* SendRaw: the words and what is next, or the end of the Write if it fails. *)
SendRaw(s, words, next) ==
  /\ IF up THEN /\ stream' = stream \o words
                /\ srv' = [srv EXCEPT ![s] = next]
                /\ ok' = IF next = Nobody THEN ok \cup {srv[s].m} ELSE ok
           ELSE srv' = [srv EXCEPT ![s] = Nobody] /\ UNCHANGED <<stream, ok>>
  /\ UNCHANGED <<arrived, up, todo, pos, view, shown, torn>>

SendLogHeader(s) ==
  /\ srv[s].next = "header"
  /\ SendRaw(s, <<<<"id", srv[s].m>>, <<"type", srv[s].m>>>>, [srv[s] EXCEPT !.next = "length"])

(* Faulty variant: the text goes first. *)
SendString_TextFirst(s) ==
  \/ srv[s].next = "length" /\ SendRaw(s, Text(srv[s].m), [srv[s] EXCEPT !.next = "text"])
  \/ srv[s].next = "text" /\ SendRaw(s, <<<<"len", srv[s].m>>>>, Nobody)

(* SendString: the length, then the text. *)
SendString(s) ==
  \/ srv[s].next = "length" /\ SendRaw(s, <<<<"len", srv[s].m>>>>, [srv[s] EXCEPT !.next = "text"])
  \/ srv[s].next = "text" /\ SendRaw(s, Text(srv[s].m), Nobody)

-------------------------------------------------------------------------------
(* External: some of what was sent arrives, or the connection is lost. *)
Deliver ==
  /\ up /\ arrived < Len(stream)
  /\ \E n \in (arrived + 1)..Len(stream) : arrived' = n
  /\ UNCHANGED <<stream, up, todo, srv, ok, pos, view, shown, torn>>

Lose ==
  /\ up /\ up' = FALSE
  /\ UNCHANGED <<stream, arrived, todo, srv, ok, pos, view, shown, torn>>

-------------------------------------------------------------------------------
(* NetworkStream.Read: up to n words of what has arrived, once there are     *)
(* any; what is missing of them is 0.                                        *)
Ready(n) == arrived > pos \/ ~up \/ n = 0
Count(n) == IF arrived - pos < n THEN arrived - pos ELSE n
Data(n) == [i \in 1..n |-> IF i <= Count(n) THEN stream[pos + i] ELSE <<"zero", 0>>]

Take(n) ==
  /\ Ready(n) /\ pos' = pos + Count(n)
  /\ torn' = (torn \/ Count(n) < n)
  /\ UNCHANGED <<stream, arrived, up, todo, srv, ok>>

(* HandleSentLogData: the header, if there are data. *)
ReadHeader ==
  /\ view.at = "header" /\ arrived > pos /\ Take(2)
  /\ view' = [at |-> "length", id |-> Data(2)[1], type |-> Data(2)[2], len |-> 0]
  /\ UNCHANGED shown

(* NetReadString: the length; a word that is none is some number. *)
ReadLength ==
  /\ view.at = "length" /\ Take(1)
  /\ \E len \in {TextLen[m] : m \in Messages} \cup {0} :
       /\ Data(1)[1][1] = "len" => len = TextLen[Data(1)[1][2]]
       /\ view' = [view EXCEPT !.at = "text", !.len = len]
  /\ UNCHANGED shown

(* The text, and LogStdout or LogStderr; another type is not shown. *)
ReadText ==
  /\ view.at = "text" /\ Take(view.len)
  /\ shown' = IF view.type[1] = "type"
              THEN shown \cup {[id |-> view.id, type |-> view.type, text |-> Data(view.len)]}
              ELSE shown
  /\ view' = Waiting

-------------------------------------------------------------------------------
Send == \E s \in Servers : SendLogHeader(s) \/ SendString(s)
Receive == ReadHeader \/ ReadLength \/ ReadText

LogNext ==
  \/ \E s \in Servers, m \in Messages : LogWrite(s, m)
  \/ \E m \in Messages : WriteRefused(m)
  \/ Send \/ Deliver \/ Lose \/ Receive

LogSpec == LogInit /\ [][LogNext]_logvars

(* The viewer polls for ever, and a connection delivers what was sent. *)
FairLogSpec == LogSpec /\ WF_logvars(Deliver) /\ WF_logvars(Receive)

-------------------------------------------------------------------------------
Record(m) == [id |-> <<"id", m>>, type |-> <<"type", m>>, text |-> Text(m)]

(* What the viewer shows was written, by the program and to the stream that  *)
(* it names and with that text, as long as no two threads write at the same  *)
(* time and every read finds all it asks for; also when the connection is    *)
(* lost in the middle of a message and its Write has failed.                 *)
ShownWasWritten ==
  ~torn => \A r \in shown : \E m \in Messages \ todo : r = Record(m)

(* Every message whose Write returned 0 is shown in the end, with its own    *)
(* program, stream and text, as long as the connection holds, no two threads *)
(* write at the same time and every read finds all it asks for.  (Without    *)
(* the last two the viewer takes texts for headers and does not recover.)    *)
EveryLogIsShown ==
  [](up /\ ~torn) => \A m \in Messages : m \in ok ~> Record(m) \in shown
===============================================================================
