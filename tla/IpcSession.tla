------------------------------ MODULE IpcSession -------------------------------
(*****************************************************************************)
(* Sessions (ipc_Session.cpp) and the service manager's port (sm_Port.cpp):  *)
(* who owns which kernel handle.  The kernel is external: a table of         *)
(* handles, whose numbers it gives out again after they were closed, and     *)
(* sessions, which are never the same twice.  One thread uses them; a step   *)
(* is a call of the kernel with what the code does until the next one.       *)
(*****************************************************************************)
EXTENDS Naturals, FiniteSets

CONSTANTS
  Objects,       \* the Session objects of the program
  Port,          \* the object of _inner_SmPort, no member of Objects
  Handles,       \* the numbers of handles, not with 0
  NoObject,
  MaxMade        \* bound: how many kernel sessions are made

ASSUME HandlesAssumption == Handles \subseteq Nat \ {0}
ASSUME PortAssumption == Port \notin Objects /\ NoObject \notin Objects \cup {Port}

VARIABLES
  kern,          \* the kernel's table: the session behind each handle, or 0
  made,          \* how many sessions were made
  obj,           \* the objects: handle and type, "none" when there is none
  initialized,   \* _inner_Initialized
  call,          \* the call under way: where it is, and for which object
  born,          \* history: the kernel session an object was made for
  service,       \* history: the sessions got by name and never converted
  moved          \* history: whether a session was moved

vars == <<kern, made, obj, initialized, call, born, service, moved>>

All == Objects \cup {Port}
Absent == [handle |-> 0, type |-> "none"]
Idle == [at |-> "idle", o |-> NoObject, domain |-> FALSE]

Init ==
  /\ kern = [h \in Handles |-> 0] /\ made = 0
  /\ obj = [o \in All |-> Absent]
  /\ initialized = FALSE /\ call = Idle
  /\ born = [o \in All |-> 0] /\ service = {} /\ moved = FALSE

Live(o) == obj[o].type # "none"
IsValid(o) == obj[o].type \notin {"none", "Invalid"}
Owns(o) == obj[o].type \in {"Normal", "Domain"}

(* External: a new session behind a free handle, and CloseHandle.  A handle  *)
(* that is not in the table, 0 among them, is refused.                       *)
Free(k) == {h \in Handles : k[h] = 0}
CloseHandle(k, h) == [g \in Handles |-> IF g = h THEN 0 ELSE k[g]]

-------------------------------------------------------------------------------
(* sm::Initialize: connect to the port.  _inner_SmPort takes the new session *)
(* and the object it held is destroyed.                                      *)
Connect ==
  /\ call.at = "init" /\ ~initialized /\ made < MaxMade
  /\ \E h \in Free(kern) :
       /\ kern' = IF Owns(Port) THEN CloseHandle([kern EXCEPT ![h] = made + 1], obj[Port].handle)
                                ELSE [kern EXCEPT ![h] = made + 1]
       /\ obj' = [obj EXCEPT ![Port] = [handle |-> h, type |-> "Normal"]]
  /\ made' = made + 1 /\ born' = [born EXCEPT ![Port] = made + 1]
  /\ call' = [call EXCEPT !.at = "probe"]
  /\ UNCHANGED <<initialized, service, moved>>

(* Faulty variant: the handle of the probe stays open. *)
Probe_KeepsHandle ==
  /\ call.at = "probe"
  /\ \/ /\ made < MaxMade /\ \E h \in Free(kern) : kern' = [kern EXCEPT ![h] = made + 1]
        /\ made' = made + 1 /\ initialized' = TRUE /\ call' = [call EXCEPT !.at = "get"]
     \/ /\ call' = [call EXCEPT !.at = "pid"]
        /\ UNCHANGED <<kern, made, initialized>>
  /\ UNCHANGED <<obj, born, service, moved>>

(* The probe for fsp-srv, whose handle is closed again. *)
Probe ==
  /\ call.at = "probe"
  /\ \/ /\ made < MaxMade
        /\ \E h \in Free(kern) : kern' = CloseHandle([kern EXCEPT ![h] = made + 1], h)
        /\ made' = made + 1 /\ initialized' = TRUE /\ call' = [call EXCEPT !.at = "get"]
     \/ /\ call' = [call EXCEPT !.at = "pid"]
        /\ UNCHANGED <<kern, made, initialized>>
  /\ UNCHANGED <<obj, born, service, moved>>

(* The request with the process id, if the probe failed. *)
SendPid ==
  /\ call.at = "pid"
  /\ \/ initialized' = TRUE /\ call' = [call EXCEPT !.at = "get"]
     \/ call' = Idle /\ UNCHANGED initialized
  /\ UNCHANGED <<kern, made, obj, born, service, moved>>

(* ConnectToNamedPort fails, or there is nothing to do. *)
InitializeReturns ==
  /\ call.at = "init"
  /\ call' = IF initialized THEN [call EXCEPT !.at = "get"] ELSE Idle
  /\ UNCHANGED <<kern, made, obj, initialized, born, service, moved>>

(* sm::Finalize *)
Finalize ==
  /\ call = Idle /\ initialized
  /\ kern' = IF Owns(Port) THEN CloseHandle(kern, obj[Port].handle) ELSE kern
  /\ obj' = [obj EXCEPT ![Port] = Absent]
  /\ initialized' = FALSE
  /\ UNCHANGED <<made, call, born, service, moved>>

-------------------------------------------------------------------------------
(* ServiceSession::Create and CreateDomain: the constructor initialises sm   *)
(* and asks it for the service.                                              *)
Create(o, domain) ==
  /\ call = Idle /\ ~Live(o)
  /\ obj' = [obj EXCEPT ![o] = [handle |-> 0, type |-> "Invalid"]]
  /\ call' = [at |-> "init", o |-> o, domain |-> domain]
  /\ UNCHANGED <<kern, made, initialized, born, service, moved>>

(* sm::GetService writes the handle; the type stays Invalid. *)
GetService ==
  /\ call.at = "get"
  /\ LET o == call.o IN
     \/ /\ made < MaxMade
        /\ \E h \in Free(kern) :
             kern' = [kern EXCEPT ![h] = made + 1] /\ obj' = [obj EXCEPT ![o].handle = h]
        /\ made' = made + 1 /\ born' = [born EXCEPT ![o] = made + 1]
        /\ service' = service \cup {made + 1}
        /\ call' = IF call.domain THEN [call EXCEPT !.at = "convert"] ELSE Idle
     \/ call' = Idle /\ UNCHANGED <<kern, made, obj, born, service>>
  /\ UNCHANGED <<initialized, moved>>

(* ConvertToDomain of any session that is neither a domain nor of one: what  *)
(* the server answers decides.                                               *)
Converted(o) ==
  /\ obj' = [obj EXCEPT ![o].type = "Domain"]
  /\ service' = service \ {born[o]}

ConvertToDomain ==
  /\ call.at = "convert" /\ call' = Idle
  /\ Converted(call.o) \/ UNCHANGED <<obj, service>>
  /\ UNCHANGED <<kern, made, initialized, born, moved>>

(* Of a session that is open. *)
Usable(o) == Live(o) /\ obj[o].handle # 0 /\ born[o] # 0

Convert(o) ==
  /\ call = Idle /\ Usable(o) /\ obj[o].type \in {"Normal", "Invalid"}
  /\ Converted(o)
  /\ UNCHANGED <<kern, made, initialized, call, born, moved>>

(* A request with an OutSession argument: an object of the domain, which has *)
(* the handle of the domain, or a session of its own.                        *)
OutSession(p, o) ==
  /\ call = Idle /\ Usable(p) /\ ~Live(o) /\ kern[obj[p].handle] = born[p]
  /\ \/ /\ obj[p].type \in {"Domain", "DomainSubService"}
        /\ obj' = [obj EXCEPT ![o] = [handle |-> obj[p].handle, type |-> "DomainSubService"]]
        /\ born' = [born EXCEPT ![o] = born[p]]
        /\ UNCHANGED <<kern, made>>
     \/ /\ obj[p].type \in {"Normal", "Invalid"} /\ made < MaxMade
        /\ \E h \in Free(kern) :
             /\ kern' = [kern EXCEPT ![h] = made + 1]
             /\ obj' = [obj EXCEPT ![o] = [handle |-> h, type |-> "Normal"]]
        /\ born' = [born EXCEPT ![o] = made + 1] /\ made' = made + 1
  /\ UNCHANGED <<initialized, call, service, moved>>

-------------------------------------------------------------------------------
(* Faulty variant: the object of a domain closes the handle. *)
Closed_AnyValid(o) == IF IsValid(o) THEN CloseHandle(kern, obj[o].handle) ELSE kern

(* What Close does to the table: the object of a domain sends a request, the *)
(* others close their handle.                                                *)
Closed(o) == IF Owns(o) THEN CloseHandle(kern, obj[o].handle) ELSE kern

(* Faulty variant: the type stays. *)
Close_KeepsType(o) ==
  /\ call = Idle /\ Live(o)
  /\ kern' = Closed(o)
  /\ born' = [born EXCEPT ![o] = 0]
  /\ UNCHANGED <<made, obj, initialized, call, service, moved>>

Close(o) ==
  /\ call = Idle /\ Live(o)
  /\ kern' = Closed(o)
  /\ obj' = [obj EXCEPT ![o].type = "Invalid"]
  /\ born' = [born EXCEPT ![o] = 0]
  /\ UNCHANGED <<made, initialized, call, service, moved>>

(* The destructor. *)
Destroy(o) ==
  /\ call = Idle /\ Live(o)
  /\ kern' = Closed(o)
  /\ obj' = [obj EXCEPT ![o] = Absent]
  /\ born' = [born EXCEPT ![o] = 0]
  /\ UNCHANGED <<made, initialized, call, service, moved>>

(* The constructor and the assignment that move p into o.  Claim gets the    *)
(* handle by value: the type goes over, the handle does not.                 *)
Move(p, o) ==
  /\ call = Idle /\ p # o /\ Live(p)
  /\ obj' = [obj EXCEPT ![o] = [handle |-> IF Live(o) THEN @.handle ELSE 0, type |-> obj[p].type],
                        ![p].type = "Invalid"]
  /\ moved' = TRUE
  /\ UNCHANGED <<kern, made, initialized, call, born, service>>

-------------------------------------------------------------------------------
Next ==
  \/ Connect \/ Probe \/ SendPid \/ InitializeReturns \/ Finalize
  \/ GetService \/ ConvertToDomain
  \/ \E o \in Objects :
       \/ \E d \in BOOLEAN : Create(o, d)
       \/ Convert(o) \/ Close(o) \/ Destroy(o)
       \/ \E p \in Objects : OutSession(p, o) \/ Move(p, o)

Spec == Init /\ [][Next]_vars

-------------------------------------------------------------------------------
(* An object that would close a handle closes its own: behind the handle of  *)
(* every valid session is the kernel session it was made for, also after the *)
(* numbers of closed handles were given out again.  An object of a domain is *)
(* as good as its domain: only when that was closed does its handle lead     *)
(* elsewhere.  Claim loses the handle of a session that is moved, and then   *)
(* nothing of this is left.                                                  *)
HandleIsOwn ==
  ~moved => \A o \in All : IsValid(o) =>
    \/ kern[obj[o].handle] = born[o]
    \/ obj[o].type = "DomainSubService" /\ \A h \in Handles : kern[h] # born[o]

(* Nothing leaks but what is known to: every session that is open has an     *)
(* object that will close it, or was got by name and never made a domain     *)
(* (such an object is Invalid and closes nothing), unless one was moved.     *)
NothingElseLeaks ==
  ~moved => \A h \in Handles : kern[h] # 0 =>
    \/ \E o \in All : Owns(o) /\ obj[o].handle = h
    \/ kern[h] \in service

(* While sm is initialised its port is a valid session that is open: no      *)
(* session of the program closes it in place of its own.                     *)
PortIsOpen == initialized /\ ~moved => Owns(Port) /\ kern[obj[Port].handle] = born[Port]
===============================================================================
