------------------------------ MODULE IpcMessage -------------------------------
(*****************************************************************************)
(* The message of a request in the thread's IPC buffer: what                 *)
(* PrepareCommandHeader and ProcessRequest write, word by word and in their  *)
(* order, and what ProcessResponse reads of the answer.  A word holds a      *)
(* name and a number for the value that the code puts there.  The server is  *)
(* external: it finds the fields by the counts in the header, which is the   *)
(* format the kernel prescribes.                                             *)
(*****************************************************************************)
EXTENDS Naturals, Sequences

CONSTANTS
  Requests,      \* the requests that are considered (see Request)
  Replies,       \* the answers that are considered (see Reply)
  Words          \* the size of the buffer, 0x40 words

ASSUME WordsAssumption == Words \in Nat

VARIABLES
  rq,            \* RequestData, by its counts
  rp,            \* what the server answers
  tls,           \* the buffer
  step           \* prepare, sent, answered

msgvars == <<rq, rp, tls, step>>

Request == [pid : BOOLEAN, copy : Nat, move : Nat, instatic : Nat, in : Nat,
            out : Nat, exch : Nat, outstatic : Nat, raw : Nat,
            domain : BOOLEAN, oids : Nat]

Reply == [pid : BOOLEAN, copy : Nat, move : Nat, statics : Nat, bufs : Nat,
          raw : Nat, domain : BOOLEAN, oids : Nat]

Named(name, n) == [i \in 1..n |-> <<name, i>>]
Put(w, at, words) ==
  [i \in DOMAIN w |-> IF i \in at..(at + Len(words) - 1) THEN words[i - at + 1] ELSE w[i]]
Slice(w, at, n) == [i \in 1..n |-> w[at + i - 1]]

Special(m) == m.pid \/ m.copy + m.move > 0
HandlesAt(m) == 3 + (IF m.pid THEN 2 ELSE 0)
DescriptorsAt(m) == IF Special(m) THEN HandlesAt(m) + m.copy + m.move ELSE 2

(* To the next 16 bytes; the buffer itself is aligned. *)
Pad(at) == (4 - (at % 4)) % 4

-------------------------------------------------------------------------------
(* PrepareCommandHeader *)
RawAt(q) == DescriptorsAt(q) + 2 * q.instatic + 3 * (q.in + q.out + q.exch)
RawSize(q) == q.raw + (IF q.domain THEN 16 + 4 * q.oids ELSE 0)

(* Faulty variant: no room for the padding. *)
RawWords_NoPadding(q) == RawSize(q) \div 4 + 3

RawWords(q) == RawSize(q) \div 4 + 4
SizesAt(q) == RawAt(q) + RawWords(q)
SizeWords(q) == (2 * q.outstatic + 3) \div 4
ReceivesAt(q) == SizesAt(q) + SizeWords(q)

Header(q) ==
  <<[instatic |-> q.instatic, in |-> q.in, out |-> q.out, exch |-> q.exch],
    [size |-> RawWords(q) + SizeWords(q), special |-> Special(q),
     receive |-> IF q.outstatic > 0 THEN q.outstatic + 2 ELSE 0]>>

HandleWords(m) ==
  IF Special(m)
  THEN <<[pid |-> m.pid, copy |-> m.copy, move |-> m.move]>>
       \o Named("pid", IF m.pid THEN 2 ELSE 0) \o Named("copy", m.copy) \o Named("move", m.move)
  ELSE <<>>

Descriptors(q) ==
  Named("instatic", 2 * q.instatic) \o Named("in", 3 * q.in) \o Named("out", 3 * q.out)
  \o Named("exch", 3 * q.exch)

Domain(q) ==
  <<[type |-> 1, oids |-> q.oids, size |-> q.raw], <<"object", 1>>, 0, 0>>

(* data.in_raw: where ProcessRequest and its arguments put their data. *)
DataAt(q) == RawAt(q) + Pad(RawAt(q)) + (IF q.domain THEN 4 ELSE 0)
RawLen(m) == (m.raw + 3) \div 4

PrepareCommandHeader(q, w) ==
  LET raw == RawAt(q) + Pad(RawAt(q))
      w1 == Put(w, 0, Header(q) \o HandleWords(q) \o Descriptors(q))
      w2 == Put(w1, SizesAt(q), Named("sizes", SizeWords(q)))
      w3 == Put(w2, ReceivesAt(q), Named("receive", 2 * q.outstatic))
      w4 == Put(w3, raw, Domain(q))
  IN  IF q.domain THEN Put(w4, raw + 4 + q.raw \div 4, Named("oid", q.oids)) ELSE w3

(* The part of ProcessRequest before the request is sent. *)
ProcessRequest ==
  /\ step = "prepare" /\ step' = "sent"
  /\ tls' = Put(PrepareCommandHeader(rq, tls), DataAt(rq), Named("raw", RawLen(rq)))
  /\ UNCHANGED <<rq, rp>>

(* The code does not look whether a message fits into the buffer, and puts   *)
(* the object ids of a domain at the byte behind its data: the requests are  *)
(* those that fit, and whose object ids begin a word of the buffer.          *)
ASSUME RequestsAssumption ==
  \A q \in Requests :
    /\ q \in Request /\ ReceivesAt(q) + 2 * q.outstatic <= Words
    /\ q.domain /\ q.oids > 0 => q.raw % 4 = 0

-------------------------------------------------------------------------------
(* External: the fields as the server finds them, by the header. *)
Server(w) ==
  LET sp == w[1].special
      hs == IF sp THEN w[2] ELSE [pid |-> FALSE, copy |-> 0, move |-> 0]
      d == IF sp THEN 3 + (IF hs.pid THEN 2 ELSE 0) + hs.copy + hs.move ELSE 2
      in == d + 2 * w[0].instatic
      out == in + 3 * w[0].in
      ex == out + 3 * w[0].out
      sec == ex + 3 * w[0].exch
      raw == sec + Pad(sec)
      nrecv == IF w[1].receive > 2 THEN w[1].receive - 2 ELSE 0
      dom == IF rq.domain THEN 4 ELSE 0
  IN  [copy |-> Slice(w, d - hs.copy - hs.move, hs.copy), move |-> Slice(w, d - hs.move, hs.move),
       instatic |-> Slice(w, d, 2 * w[0].instatic), in |-> Slice(w, in, 3 * w[0].in),
       out |-> Slice(w, out, 3 * w[0].out), exch |-> Slice(w, ex, 3 * w[0].exch),
       raw |-> Slice(w, raw + dom, RawLen(rq)),
       oids |-> IF rq.domain THEN Slice(w, raw + 4 + w[raw].size \div 4, w[raw].oids) ELSE <<>>,
       sizes |-> Slice(w, sec + w[1].size - (2 * nrecv + 3) \div 4, (2 * nrecv + 3) \div 4),
       receive |-> Slice(w, sec + w[1].size, 2 * nrecv)]

(* External: the answer, which fits as well.  Only a domain has object ids.  *)
ReplyRawAt(p) == DescriptorsAt(p) + 2 * p.statics + 3 * p.bufs
ReplyDataAt(p) == ReplyRawAt(p) + Pad(ReplyRawAt(p)) + (IF p.domain THEN 4 ELSE 0)

ASSUME RepliesAssumption ==
  \A p \in Replies :
    /\ p \in Reply /\ (p.oids > 0 => p.domain)
    /\ ReplyDataAt(p) + RawLen(p) + p.oids <= Words

Answer ==
  /\ step = "sent" /\ step' = "answered"
  /\ \E p \in Replies :
       /\ p.domain = rq.domain /\ rp' = p
       /\ LET desc == Named("static", 2 * p.statics) \o Named("buf", 3 * p.bufs)
              sec == ReplyRawAt(p)
              raw == sec + Pad(sec)
              w == Put(tls, 0, <<[statics |-> p.statics, bufs |-> p.bufs], [special |-> Special(p)]>>
                               \o HandleWords(p) \o desc)
              dom == IF p.domain THEN <<p.oids, 0, 0, 0>> ELSE <<>>
          IN  tls' = Put(w, raw, dom \o Named("raw", RawLen(p)) \o Named("oid", p.oids))
  /\ UNCHANGED rq

Least(a, b) == IF a < b THEN a ELSE b

(* Faulty variant: what follows the handles is found behind those that are   *)
(* taken, and not behind all there are.                                      *)
AfterHandles_Taken(at, n) == at + Least(n, 8)

AfterHandles(at, n) == at + n

(* ProcessResponse: at most eight handles and object ids are taken, and the  *)
(* rest of the message is found behind all of them.                          *)
ProcessResponse(w) ==
  LET sp == w[1].special
      hs == IF sp THEN 3 + (IF w[2].pid THEN 2 ELSE 0) ELSE 2
      oh == IF sp THEN w[2].copy + w[2].move ELSE 0
      aft == AfterHandles(hs, oh) + 2 * w[0].statics + 3 * w[0].bufs
      raw == aft + Pad(aft)
      data == raw + (IF rq.domain THEN 4 ELSE 0)
  IN  [hs |-> Slice(w, hs, Least(oh, 8)),
       raw |-> Slice(w, data, RawLen(rp)),
       oids |-> IF rq.domain THEN Slice(w, data + RawLen(rp), Least(w[raw], 8)) ELSE <<>>]

-------------------------------------------------------------------------------
MsgInit ==
  /\ rq \in Requests /\ step = "prepare"
  /\ rp = CHOOSE p \in Replies : TRUE
  /\ tls = [i \in 0..(Words - 1) |-> 0]

MsgNext == ProcessRequest \/ Answer

MsgSpec == MsgInit /\ [][MsgNext]_msgvars

(* The server finds every handle, descriptor, raw word, object id, size and  *)
(* receive buffer that the request was made of: no two fields overlap, and   *)
(* the sizes in the header lead to each, whatever the alignment needs.       *)
RequestArrives ==
  step = "sent" =>
    Server(tls) =
      [copy |-> Named("copy", rq.copy), move |-> Named("move", rq.move),
       instatic |-> Named("instatic", 2 * rq.instatic), in |-> Named("in", 3 * rq.in),
       out |-> Named("out", 3 * rq.out), exch |-> Named("exch", 3 * rq.exch),
       raw |-> Named("raw", RawLen(rq)),
       oids |-> Named("oid", IF rq.domain THEN rq.oids ELSE 0),
       sizes |-> Named("sizes", SizeWords(rq)),
       receive |-> Named("receive", 2 * rq.outstatic)]

(* The client takes from the answer the first eight handles and object ids   *)
(* and the raw data, also when there are more than eight handles.            *)
ReplyArrives ==
  step = "answered" =>
    ProcessResponse(tls) =
      [hs |-> Slice(Named("copy", rp.copy) \o Named("move", rp.move), 1,
                    Least(rp.copy + rp.move, 8)),
       raw |-> Named("raw", RawLen(rp)),
       oids |-> Named("oid", IF rp.domain THEN Least(rp.oids, 8) ELSE 0)]
===============================================================================
