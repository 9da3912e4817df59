------------------------- MODULE DescriptorsProofs -------------------------
(***************************************************************************)
(* Descriptors neither leak nor have two owners (OneOwner), and the calls   *)
(* that return a socket have done what they are for (AsPromised), for any   *)
(* number of tasks, descriptors and addresses.                              *)
(*                                                                         *)
(* Neither is inductive.  Both need to know where in a call a descriptor    *)
(* may be, which InPlace says of each task: in its handle, in the call's    *)
(* local variable or in an operation's result, never in two of them.        *)
(***************************************************************************)
EXTENDS Descriptors, TLAPS

States == {"free", "new", "open", "connected", "bound", "listening"}
Kinds == Dialling \cup {"none", "accept", "open", "connect_addrs"}
Opening == {"socket", "accept", "open"}

Calls == [kind : Kinds, step : Kinds \cup {"socket"}, addrs : Nat,
          sock : Fds \cup {None}]

TypeOK ==
  /\ table \in [Fds -> States]
  /\ handle \in [Tasks -> [kind : Kinds, fd : Fds \cup {None}]]
  /\ call \in [Tasks -> Calls]
  /\ running \subseteq Tasks
  /\ res \in [Tasks -> Fds \cup {None, Failed, Done}]

(* The operations of a call. *)
Steps(kind) == CASE kind = "none" -> {"none"}
                 [] kind = "connect" -> {"socket", "connect"}
                 [] kind = "bind" -> {"socket", "bind"}
                 [] kind = "listen" -> {"socket", "bind", "listen"}
                 [] kind = "connect_addrs" -> {"connect"}
                 [] OTHER -> {kind}

(* Where a task's descriptor is, while it is in a call. *)
InPlace(t) ==
  /\ handle[t].kind = "none" <=> handle[t].fd = None
  /\ call[t].step \in Steps(call[t].kind)
  /\ call[t].kind = "none" => call[t] = NoCall /\ t \notin running
  /\ t \notin running => res[t] = None
  /\ IF call[t].kind = "connect_addrs"
     THEN call[t].sock = None /\ handle[t].kind \in {"bind", "connect"}
     ELSE /\ call[t].kind # "none" => handle[t] = NoHandle
          /\ call[t].sock # None <=> call[t].step \in Dialling
  /\ IF call[t].step \in Opening THEN res[t] # Done ELSE res[t] \notin Fds

(* What has become of the file there. *)
AsDone(t) ==
  /\ res[t] \in Fds => table[res[t]] = Becomes(call[t].step)
  /\ res[t] = Done => table[Sock(t)] = Becomes(call[t].step)
  /\ handle[t].kind \in {"connect", "accept"} => table[handle[t].fd] = "connected"
  /\ handle[t].kind = "listen" => table[handle[t].fd] = "listening"
  /\ handle[t].kind = "bind" => table[handle[t].fd] \in {"bound", "connected"}

IInv == TypeOK /\ OneOwner /\ \A t \in Tasks : InPlace(t) /\ AsDone(t)

-----------------------------------------------------------------------------
(* What a step of a task's own leaves alone: the other tasks' calls, ...    *)
Others(t) ==
  \A u \in Tasks \ {t} :
    /\ handle'[u] = handle[u] /\ call'[u] = call[u] /\ res'[u] = res[u]
    /\ u \in running' <=> u \in running

(* ... and every descriptor but its own and the free ones.  Of those it has *)
(* the ones that are open afterwards.                                       *)
Exchange(t) ==
  \A n \in Fds :
    IF n \in Owned(t) \/ table[n] = "free"
    THEN table'[n] # "free" <=> n \in Owned(t)'
    ELSE table'[n] = table[n] /\ n \notin Owned(t)'

LEMMA StepOfOne ==
  ASSUME NEW t \in Tasks, IInv, TypeOK', InPlace(t)', AsDone(t)', Others(t),
         Exchange(t)
  PROVE  IInv'
PROOF
  <1>1. ASSUME NEW u \in Tasks, u # t
        PROVE  /\ InPlace(u)'
               /\ Owned(u)' = Owned(u)
               /\ Owned(t)' \cap Owned(u) = {}
               /\ \A n \in Owned(u) : table'[n] = table[n]
    <2>1. /\ handle'[u] = handle[u] /\ call'[u] = call[u] /\ res'[u] = res[u]
          /\ u \in running' <=> u \in running
      BY <1>1 DEF Others
    <2>2. Owned(u)' = Owned(u)
      BY <2>1 DEF Owned
    <2>3. InPlace(u)'
      <3>1. InPlace(u)
        BY DEF IInv
      <3> QED BY <2>1, <3>1 DEF InPlace
    <2>4. \A n \in Owned(u) : n \in Fds /\ n \notin Owned(t) /\ table[n] # "free"
      <3>1. \A n \in Owned(u) : n \in Fds
        BY DEF Owned
      <3> QED BY <1>1, <3>1 DEF IInv, OneOwner
    <2> QED BY <2>2, <2>3, <2>4 DEF Exchange
  <1>2. ASSUME NEW u \in Tasks, u # t
        PROVE  AsDone(u)'
    <2>1. AsDone(u) /\ InPlace(u)
      BY DEF IInv
    <2>2. \A n \in Fds : n \in {handle[u].fd, call[u].sock, res[u]} => table'[n] = table[n]
      BY <1>1, <1>2 DEF Owned
    <2>3. handle[u].kind # "none" => handle[u].fd \in Fds
      BY <2>1 DEF IInv, TypeOK, InPlace
    <2>4. res[u] = Done => Sock(u) \in Fds /\ Sock(u) \in {handle[u].fd, call[u].sock}
      BY <2>1, <2>3 DEF IInv, TypeOK, Calls, InPlace, Sock, Steps, Opening,
                        Dialling, NoCall, None, Done, Kinds
    <2> QED BY <1>2, <2>1, <2>2, <2>3, <2>4 DEF AsDone, Others, Sock
  <1>3. OneOwner'
    <2>1. ASSUME NEW n \in Fds
          PROVE  (table[n] # "free")' <=> \E u \in Tasks : n \in Owned(u)'
      <3>1. CASE n \in Owned(t) \/ table[n] = "free"
        BY <1>1, <3>1 DEF Exchange, IInv, OneOwner
      <3>2. CASE ~(n \in Owned(t) \/ table[n] = "free")
        BY <1>1, <3>2 DEF Exchange, IInv, OneOwner
      <3> QED BY <3>1, <3>2
    <2>2. ASSUME NEW u \in Tasks, NEW v \in Tasks, u # v
          PROVE  Owned(u)' \cap Owned(v)' = {}
      BY <1>1, <2>2 DEF IInv, OneOwner
    <2> QED BY <2>1, <2>2 DEF OneOwner
  <1> QED BY <1>1, <1>2, <1>3 DEF IInv

-----------------------------------------------------------------------------
(* Calls begin.                                                             *)

LEMMA InitInv == Init => IInv
PROOF
  <1> SUFFICES ASSUME Init PROVE IInv
    OBVIOUS
  <1>1. None \notin Fds /\ 0 \in Fds
    BY DescriptorsAssumption DEF Fds, None
  <1>2. TypeOK
    BY DEF Init, TypeOK, Calls, States, Kinds, NoHandle, NoCall
  <1>3. ASSUME NEW t \in Tasks PROVE InPlace(t) /\ AsDone(t) /\ Owned(t) = {}
    BY <1>1 DEF Init, InPlace, AsDone, Owned, NoHandle, NoCall, Steps, Opening,
                Dialling, None, Done
  <1> QED BY <1>1, <1>2, <1>3 DEF IInv, OneOwner, Init

LEMMA BeginInv ==
  ASSUME NEW t \in Tasks, IInv, NEW kind \in Kinds \ {"none"}, NEW n \in Nat,
         Begin(t, kind, n, None), UNCHANGED handle,
         IF kind = "connect_addrs" THEN handle[t].kind \in {"bind", "connect"}
                                   ELSE handle[t] = NoHandle
  PROVE  IInv'
PROOF
  <1>1. None \notin Fds /\ None # Done
    BY DescriptorsAssumption DEF Fds, None, Done
  <1>2. TypeOK'
    BY DEF IInv, TypeOK, Calls, Begin, FirstStep, Kinds, Dialling
  <1>3. InPlace(t) /\ AsDone(t)
    BY DEF IInv
  <1>4. /\ call'[t] = [kind |-> kind, step |-> FirstStep(kind), addrs |-> n,
                       sock |-> None]
        /\ t \notin running /\ res[t] = None
    BY <1>3 DEF IInv, TypeOK, Begin, InPlace, NoCall
  <1>5. InPlace(t)'
    BY <1>1, <1>3, <1>4 DEF InPlace, Begin, FirstStep, Kinds, Dialling, Steps,
                            Opening, NoHandle
  <1>6. AsDone(t)'
    BY <1>1, <1>3, <1>4 DEF AsDone, Begin
  <1>7. Owned(t)' = Owned(t)
    BY <1>1, <1>4 DEF Owned, Begin, NoCall
  <1>8. Others(t)
    BY DEF Others, Begin, IInv, TypeOK
  <1>9. Exchange(t)
    BY <1>7 DEF Exchange, Begin, IInv, OneOwner
  <1> QED BY <1>2, <1>5, <1>6, <1>8, <1>9, StepOfOne

LEMMA DropHandleInv ==
  ASSUME NEW t \in Tasks, IInv, DropHandle(t)
  PROVE  IInv'
PROOF
  <1>1. None \notin Fds /\ None # Done
    BY DescriptorsAssumption DEF Fds, None, Done
  <1>2. TypeOK'
    BY Zenon DEF IInv, TypeOK, DropHandle, NoHandle, Kinds, States
  <1>3. InPlace(t) /\ AsDone(t)
    BY DEF IInv
  <1>4. /\ handle'[t] = NoHandle
        /\ call[t] = NoCall /\ t \notin running /\ res[t] = None
    BY <1>3 DEF IInv, TypeOK, DropHandle, InPlace, NoCall
  <1>5. InPlace(t)'
    BY <1>1, <1>3, <1>4 DEF InPlace, DropHandle, NoHandle, NoCall
  <1>6. AsDone(t)'
    BY <1>1, <1>4 DEF AsDone, DropHandle, NoHandle
  <1>7. Owned(t)' = {} /\ \A n \in Fds : n \in Owned(t) <=> n = handle[t].fd
    BY <1>1, <1>4 DEF Owned, DropHandle, NoCall, NoHandle
  <1>8. Others(t)
    BY DEF Others, DropHandle, IInv, TypeOK
  <1>9. Exchange(t)
    BY <1>7 DEF Exchange, DropHandle, IInv, TypeOK
  <1> QED BY <1>2, <1>5, <1>6, <1>8, <1>9, StepOfOne

-----------------------------------------------------------------------------
(* An operation starts, is refused or fails.                                *)

LEMMA StartInv ==
  ASSUME NEW t \in Tasks, IInv, Start(t)
  PROVE  IInv'
PROOF
  <1>1. TypeOK'
    BY DEF IInv, TypeOK, Start
  <1>2. InPlace(t) /\ AsDone(t)
    BY DEF IInv
  <1>3. InPlace(t)'
    BY <1>2 DEF InPlace, Start, AtStep, Steps, NoCall, Opening, Dialling
  <1>4. AsDone(t)' /\ Owned(t)' = Owned(t)
    BY <1>2 DEF AsDone, Owned, Start, Sock
  <1>5. Others(t)
    BY DEF Others, Start
  <1>6. Exchange(t)
    BY <1>4 DEF Exchange, Start, IInv, OneOwner
  <1> QED BY <1>1, <1>3, <1>4, <1>5, <1>6, StepOfOne

(* The local variable's socket is closed, and the others stay.  *)
LEMMA FailInv ==
  ASSUME NEW t \in Tasks, IInv, call[t] # NoCall, res[t] \in {None, Failed},
         Fail(t), res' = [res EXCEPT ![t] = None], running' = running \ {t}
  PROVE  IInv'
PROOF
  <1>1. /\ None \notin Fds /\ Failed \notin Fds /\ None # Done
        /\ None # Failed
    BY DescriptorsAssumption DEF Fds, None, Done, Failed
  <1>2. InPlace(t) /\ AsDone(t)
    BY DEF IInv
  <1>3. /\ call[t] \in Calls
        /\ handle[t] \in [kind : Kinds, fd : Fds \cup {None}]
    BY DEF IInv, TypeOK
  <1>4. \/ call'[t] = NoCall
        \/ /\ call'[t].kind = call[t].kind
           /\ call'[t].step = FirstStep(call[t].kind)
           /\ call'[t].addrs \in Nat
           /\ call'[t].sock = None
           /\ call'[t] \in Calls
    <2>1. CASE call[t].addrs > 1 /\ call[t].step # "listen"
      <3>1. call'[t] = [kind |-> call[t].kind, step |-> FirstStep(call[t].kind),
                       addrs |-> call[t].addrs - 1, sock |-> None]
        BY <2>1 DEF Fail, NextAddr, IInv, TypeOK
      <3>2. call[t].addrs - 1 \in Nat
        BY <1>3, <2>1 DEF Calls
      <3>3. FirstStep(call[t].kind) \in Kinds \cup {"socket"}
        BY <1>3 DEF Calls, FirstStep, Kinds, Dialling
      <3> QED BY <1>3, <3>1, <3>2, <3>3 DEF Calls
    <2>2. CASE ~(call[t].addrs > 1 /\ call[t].step # "listen")
      BY <2>2 DEF Fail, NextAddr, IInv, TypeOK
    <2> QED BY <2>1, <2>2
  <1>5. TypeOK'
    <2>1. call' \in [Tasks -> Calls]
      <3>1. NoCall \in Calls
        BY DEF Calls, NoCall, Kinds
      <3> QED BY <1>4, <3>1 DEF Fail, NextAddr, IInv, TypeOK
    <2>2. table' \in [Fds -> States]
      BY DEF Fail, DropSock, IInv, TypeOK, States
    <2> QED BY <2>1, <2>2, Zenon DEF Fail, IInv, TypeOK
  <1>6. res'[t] = None /\ t \notin running' /\ handle'[t] = handle[t]
    BY DEF IInv, TypeOK, Fail
  <1>7. InPlace(t)'
    BY <1>1, <1>2, <1>3, <1>4, <1>6
       DEF InPlace, FirstStep, Steps, Opening, Dialling, NoCall, Kinds, NoHandle
  <1>8. /\ call'[t].sock = None
        /\ \A n \in Fds : n \in Owned(t)' <=> n = handle[t].fd
        /\ \A n \in Fds : n \in Owned(t) <=> n = handle[t].fd \/ n = call[t].sock
        /\ call[t].sock \in Fds => call[t].sock # handle[t].fd
    <2>1. call'[t].sock = None
      BY <1>4 DEF NoCall
    <2>2. call[t].kind = "none" => call[t].sock = None
      BY <1>2 DEF InPlace, NoCall
    <2>3. call[t].sock \in Fds => handle[t].fd \notin Fds
      BY <1>1, <1>2, <2>2 DEF InPlace, NoHandle
    <2> QED BY <1>1, <1>6, <2>1, <2>3 DEF Owned
  <1>9. \A n \in Fds : table'[n] = IF n = call[t].sock THEN "free" ELSE table[n]
    BY DEF Fail, DropSock
  <1>10. AsDone(t)'
    <2>1. handle[t].kind # "none" => handle[t].fd \in Fds
      BY <1>2, <1>3 DEF InPlace
    <2> QED BY <1>1, <1>2, <1>6, <1>8, <1>9, <2>1 DEF AsDone
  <1>11. Others(t)
    BY DEF Others, Fail, NextAddr, IInv, TypeOK
  <1>12. Exchange(t)
    BY <1>8, <1>9 DEF Exchange, IInv, OneOwner
  <1> QED BY <1>5, <1>7, <1>10, <1>11, <1>12, StepOfOne

-----------------------------------------------------------------------------
(* An operation has succeeded: its result is in one place before the step,  *)
(* and in one after it.                                                     *)

LEMMA CreatedInv ==
  ASSUME NEW t \in Tasks, IInv, Created(t)
  PROVE  IInv'
PROOF
  <1>1. None \notin Fds /\ None # Done
    BY DescriptorsAssumption DEF Fds, None, Done
  <1>2. InPlace(t) /\ AsDone(t)
    BY DEF IInv
  <1>3. /\ call[t].kind \in Dialling /\ res[t] \in Fds
        /\ call[t].sock = None /\ handle[t] = NoHandle
    <2>1. call[t].step = "socket" /\ res[t] \notin {None, Failed}
      BY DEF Created, Ended
    <2>2. call[t].kind \in Dialling
      BY <1>2, <2>1 DEF InPlace, Steps, Dialling, IInv, TypeOK, Calls, Kinds
    <2> QED BY <1>2, <2>1, <2>2 DEF InPlace, Opening, Dialling, IInv, TypeOK
  <1>4. /\ call'[t].kind = call[t].kind
        /\ call'[t].step = IF call[t].kind = "connect" THEN "connect" ELSE "bind"
        /\ call'[t].sock = res[t]
        /\ \A u \in Tasks \ {t} : call'[u] = call[u]
    BY DEF Created, IInv, TypeOK
  <1>5. TypeOK'
    <2>1. call'[t] = [kind |-> call[t].kind, step |-> call'[t].step,
                      addrs |-> call[t].addrs, sock |-> res[t]]
      <3>1. call \in [Tasks -> Calls]
        BY DEF IInv, TypeOK
      <3>2. call'[t] = [call[t] EXCEPT !.step = call'[t].step, !.sock = res[t]]
        BY <3>1 DEF Created, Calls
      <3> QED BY <3>1, <3>2, ZenonT(40) DEF Calls
    <2>2. call'[t] \in Calls
      <3>1. call[t].kind \in Kinds /\ call[t].addrs \in Nat
        BY DEF IInv, TypeOK, Calls
      <3>2. call'[t].step \in Kinds \cup {"socket"}
        BY <1>4 DEF Kinds, Dialling
      <3> QED BY <1>3, <2>1, <3>1, <3>2 DEF Calls
    <2>3. call' \in [Tasks -> Calls]
      BY <2>2 DEF Created, IInv, TypeOK
    <2> QED BY <2>3 DEF Created, Completes, IInv, TypeOK
  <1>6. /\ res'[t] = None /\ t \notin running'
        /\ handle'[t] = handle[t] /\ table' = table
    BY DEF Created, Completes, IInv, TypeOK
  <1>7. InPlace(t)'
    BY <1>1, <1>2, <1>3, <1>4, <1>6
       DEF InPlace, Steps, Opening, Dialling, NoHandle
  <1>8. AsDone(t)'
    BY <1>1, <1>3, <1>6 DEF AsDone, NoHandle
  <1>9. Owned(t)' = Owned(t)
    BY <1>1, <1>3, <1>4, <1>6 DEF Owned
  <1>10. Others(t)
    BY <1>4 DEF Others, Created, Completes, IInv, TypeOK
  <1>11. Exchange(t)
    BY <1>6, <1>9 DEF Exchange, IInv, OneOwner
  <1> QED BY <1>5, <1>7, <1>8, <1>10, <1>11, StepOfOne

LEMMA BoundInv ==
  ASSUME NEW t \in Tasks, IInv, Bound(t)
  PROVE  IInv'
PROOF
  <1>1. None \notin Fds /\ None # Done
    BY DescriptorsAssumption DEF Fds, None, Done
  <1>2. InPlace(t) /\ AsDone(t)
    BY DEF IInv
  <1>3. /\ call[t].kind = "listen" /\ handle[t] = NoHandle
        /\ call[t].sock # None /\ res[t] \notin Fds
    <2>1. call[t].step = "bind" /\ call[t].kind # "bind"
      BY DEF Bound, LastStep
    <2>2. call[t].kind = "listen"
      BY <1>2, <2>1 DEF InPlace, Steps, IInv, TypeOK, Kinds, Dialling
    <2> QED BY <1>2, <2>1, <2>2 DEF InPlace, Opening, Dialling
  <1>4. /\ call'[t].kind = call[t].kind /\ call'[t].step = "listen"
        /\ call'[t].sock = call[t].sock
        /\ \A u \in Tasks \ {t} : call'[u] = call[u]
    BY DEF Bound, IInv, TypeOK
  <1>5. TypeOK'
    <2>1. call' \in [Tasks -> Calls]
      <3>1. call \in [Tasks -> Calls]
        BY DEF IInv, TypeOK
      <3>2. "listen" \in Kinds \cup {"socket"}
        BY DEF Kinds, Dialling
      <3>3. [call[t] EXCEPT !.step = "listen"] \in Calls
        BY <3>1, <3>2 DEF Calls
      <3>4. call' = [call EXCEPT ![t] = [call[t] EXCEPT !.step = "listen"]]
        BY <3>1 DEF Bound
      <3> QED BY <3>1, <3>3, <3>4
    <2> QED BY <2>1 DEF Bound, Completes, IInv, TypeOK
  <1>6. /\ res'[t] = None /\ t \notin running'
        /\ handle'[t] = handle[t] /\ table' = table
    BY DEF Bound, Completes, IInv, TypeOK
  <1>7. InPlace(t)'
    BY <1>1, <1>2, <1>3, <1>4, <1>6
       DEF InPlace, Steps, Opening, Dialling, NoHandle
  <1>8. AsDone(t)'
    BY <1>1, <1>3, <1>6 DEF AsDone, NoHandle
  <1>9. Owned(t)' = Owned(t)
    BY <1>1, <1>3, <1>4, <1>6 DEF Owned
  <1>10. Others(t)
    BY <1>4 DEF Others, Bound, Completes, IInv, TypeOK
  <1>11. Exchange(t)
    BY <1>6, <1>9 DEF Exchange, IInv, OneOwner
  <1> QED BY <1>5, <1>7, <1>8, <1>10, <1>11, StepOfOne

LEMMA ReturnInv ==
  ASSUME NEW t \in Tasks, IInv, Return(t)
  PROVE  IInv'
PROOF
  <1> DEFINE fd == IF res[t] = Done THEN Sock(t) ELSE res[t]
             kind == IF call[t].kind = "connect_addrs" THEN "connect"
                     ELSE call[t].kind
  <1>1. /\ None \notin Fds /\ None # Done /\ Done \notin Fds
        /\ Failed \notin Fds
    BY DescriptorsAssumption DEF Fds, None, Done, Failed
  <1>2. /\ InPlace(t) /\ AsDone(t)
        /\ res[t] \in Fds \cup {Done}
        /\ call[t].step = call[t].kind \/ call[t].kind = "connect_addrs"
    BY DEF IInv, TypeOK, Return, Ended, LastStep
  <1>3. call[t].kind \in Kinds \ {"none"}
    BY <1>2 DEF IInv, TypeOK, Calls, InPlace, Return, Ended, Kinds, Dialling
  <1>4. IF call[t].kind \in {"accept", "open"}
        THEN res[t] \in Fds /\ call[t].sock = None /\ handle[t] = NoHandle
        ELSE res[t] = Done /\ call[t].step \in Dialling
    BY <1>1, <1>2, <1>3 DEF InPlace, Steps, Opening, Dialling, Kinds
  <1>5. /\ fd \in Fds
        /\ \A n \in Fds : n \in Owned(t) <=> n = fd
        /\ table[fd] = Becomes(call[t].step)
    <2>0. handle[t].fd \in Fds \cup {None} /\ call[t].sock \in Fds \cup {None}
      BY Zenon DEF IInv, TypeOK, Calls
    <2>1. CASE call[t].kind \in {"accept", "open"}
      BY <1>1, <1>2, <1>4, <2>1 DEF Owned, NoHandle, AsDone
    <2>2. CASE call[t].kind = "connect_addrs"
      BY <1>1, <1>2, <1>4, <2>0, <2>2, Zenon DEF Owned, Sock, InPlace, AsDone, Dialling
    <2>3. CASE call[t].kind \in Dialling
      <3>1. call[t].sock \in Fds /\ handle[t].fd = None /\ Sock(t) = call[t].sock
        BY <1>2, <1>4, <2>0, <2>3 DEF InPlace, Sock, Dialling, NoHandle
      <3>2. res[t] = Done
        BY <1>4, <2>3, Zenon DEF Dialling
      <3> QED BY <1>1, <1>2, <3>1, <3>2 DEF Owned, AsDone
    <2> QED BY <1>3, <2>1, <2>2, <2>3 DEF Kinds
  <1>6. /\ handle'[t] = [kind |-> kind, fd |-> fd]
        /\ call'[t] = NoCall /\ res'[t] = None
        /\ t \notin running' /\ table' = table
    BY DEF Return, Completes, IInv, TypeOK
  <1>7. kind \in Kinds \ {"none", "connect_addrs"}
    BY <1>3, Zenon DEF Kinds, Dialling
  <1>8. TypeOK'
    <2>1. handle' \in [Tasks -> [kind : Kinds, fd : Fds \cup {None}]]
      BY <1>5, <1>7 DEF Return, IInv, TypeOK
    <2>2. call' \in [Tasks -> Calls]
      BY DEF Return, IInv, TypeOK, Calls, NoCall, Kinds
    <2> QED BY <2>1, <2>2 DEF Return, Completes, IInv, TypeOK
  <1>9. InPlace(t)'
    BY <1>1, <1>5, <1>6, <1>7 DEF InPlace, NoCall, Steps, Opening, Dialling
  <1>10. AsDone(t)'
    <2>1. /\ kind \in {"connect", "accept"} => table[fd] = "connected"
          /\ kind = "listen" => table[fd] = "listening"
          /\ kind = "bind" => table[fd] = "bound"
      BY <1>2, <1>4, <1>5 DEF Becomes, InPlace, Steps
    <2> QED BY <1>1, <1>6, <2>1 DEF AsDone
  <1>11. Owned(t)' = Owned(t)
    BY <1>1, <1>5, <1>6 DEF Owned, NoCall
  <1>12. Others(t)
    BY Zenon DEF Others, Return, Completes, IInv, TypeOK
  <1>13. Exchange(t)
    BY <1>6, <1>11 DEF Exchange, IInv, OneOwner
  <1> QED BY <1>8, <1>9, <1>10, <1>12, <1>13, StepOfOne

-----------------------------------------------------------------------------
(* The kernel ends an operation.                                            *)

LEMMA OpOpensInv ==
  ASSUME NEW t \in Tasks, IInv, OpOpens(t)
  PROVE  IInv'
PROOF
  <1>1. PICK n \in Free : /\ Finish(t, n)
                          /\ table' = [table EXCEPT ![n] = Becomes(call[t].step)]
    BY Zenon DEF OpOpens
  <1>2. /\ None \notin Fds /\ Done \notin Fds
        /\ n \in Fds /\ table[n] = "free"
    BY DescriptorsAssumption DEF Fds, None, Done, Free
  <1>3. InPlace(t) /\ AsDone(t)
    BY DEF IInv
  <1>4. Becomes(call[t].step) \in States \ {"free"}
    BY DEF OpOpens, Becomes, States
  <1>5. /\ res'[t] = n /\ call' = call /\ handle' = handle /\ running' = running
        /\ t \in running /\ res[t] = None
        /\ \A m \in Fds : table'[m] = IF m = n THEN Becomes(call[t].step)
                                      ELSE table[m]
    BY <1>1 DEF Finish, IInv, TypeOK
  <1>6. TypeOK'
    BY <1>1, <1>2, <1>4 DEF Finish, IInv, TypeOK
  <1>7. InPlace(t)'
    BY <1>2, <1>3, <1>5 DEF InPlace, OpOpens, Opening
  <1>8. /\ \A m \in Fds : m \in Owned(t)' <=> m \in Owned(t) \/ m = n
        /\ n \notin Owned(t)
    BY <1>2, <1>5 DEF Owned, IInv, OneOwner
  <1>9. AsDone(t)'
    <2>1. handle[t].kind # "none" => handle[t].fd \in Fds /\ handle[t].fd # n
      BY <1>3, <1>8 DEF InPlace, IInv, TypeOK, Owned
    <2> QED BY <1>2, <1>3, <1>5, <2>1, Zenon DEF AsDone
  <1>10. Others(t)
    BY <1>1, Zenon DEF Others, Finish, IInv, TypeOK
  <1>11. Exchange(t)
    BY <1>2, <1>4, <1>5, <1>8 DEF Exchange, IInv, OneOwner
  <1> QED BY <1>6, <1>7, <1>9, <1>10, <1>11, StepOfOne

LEMMA OpChangesInv ==
  ASSUME NEW t \in Tasks, IInv, OpChanges(t)
  PROVE  IInv'
PROOF
  <1> DEFINE fd == Sock(t)
  <1>1. /\ None \notin Fds /\ Done \notin Fds /\ None # Done
    BY DescriptorsAssumption DEF Fds, None, Done
  <1>2. InPlace(t) /\ AsDone(t)
    BY DEF IInv
  <1>3. /\ call[t].step \in Dialling
        /\ Becomes(call[t].step) \in States \ {"free"}
    BY <1>2 DEF OpChanges, Becomes, States, Dialling, InPlace, Steps, IInv,
                TypeOK, Calls, Kinds
  <1>4. fd \in Owned(t) /\ fd \in Fds
    <2>1. CASE call[t].kind = "connect_addrs"
      BY <1>2, <2>1, Zenon DEF Sock, Owned, InPlace, IInv, TypeOK
    <2>2. CASE call[t].kind # "connect_addrs"
      BY <1>2, <1>3, <2>2 DEF Sock, Owned, InPlace, IInv, TypeOK, Calls
    <2> QED BY <2>1, <2>2, Zenon
  <1>5. /\ res'[t] = Done /\ call' = call /\ handle' = handle
        /\ running' = running /\ t \in running /\ res[t] = None
        /\ \A m \in Fds : table'[m] = IF m = fd THEN Becomes(call[t].step)
                                      ELSE table[m]
    BY DEF OpChanges, Finish, IInv, TypeOK
  <1>6. TypeOK'
    BY <1>3, <1>4, Zenon DEF OpChanges, Finish, IInv, TypeOK
  <1>7. InPlace(t)'
    BY <1>1, <1>2, <1>3, <1>5, Zenon DEF InPlace, Opening, Dialling
  <1>8. Owned(t)' = Owned(t)
    BY <1>1, <1>5 DEF Owned
  <1>9. AsDone(t)'
    <2>1. CASE call[t].kind = "connect_addrs"
      <3>1. handle[t].fd = fd /\ handle[t].kind \in {"bind", "connect"}
        BY <1>2, <2>1 DEF Sock, InPlace
      <3>2. Becomes(call[t].step) = "connected"
        BY <1>2, <2>1 DEF InPlace, Steps, Becomes
      <3>3. Sock(t)' = fd
        BY <1>5, Zenon DEF Sock
      <3> QED BY <1>1, <1>4, <1>5, <3>1, <3>2, <3>3, Zenon DEF AsDone
    <2>2. CASE call[t].kind # "connect_addrs"
      <3>1. handle[t].kind = "none"
        BY <1>2, <1>3, <2>2 DEF InPlace, NoHandle, NoCall, Dialling
      <3>2. Sock(t)' = fd
        BY <1>5 DEF Sock
      <3> QED BY <1>1, <1>4, <1>5, <3>1, <3>2, Zenon DEF AsDone
    <2> QED BY <2>1, <2>2, Zenon
  <1>10. Others(t)
    BY Zenon DEF Others, OpChanges, Finish, IInv, TypeOK
  <1>11. Exchange(t)
    BY <1>3, <1>4, <1>5, <1>8 DEF Exchange, IInv, OneOwner
  <1> QED BY <1>6, <1>7, <1>9, <1>10, <1>11, StepOfOne

LEMMA OpFailsInv ==
  ASSUME NEW t \in Tasks, IInv, OpFails(t)
  PROVE  IInv'
PROOF
  <1>1. /\ None \notin Fds /\ Failed \notin Fds /\ Failed # Done
    BY DescriptorsAssumption DEF Fds, None, Failed, Done
  <1>2. InPlace(t) /\ AsDone(t)
    BY DEF IInv
  <1>3. /\ res'[t] = Failed /\ call' = call /\ handle' = handle
        /\ running' = running /\ table' = table /\ t \in running /\ res[t] = None
    BY DEF OpFails, Finish, IInv, TypeOK
  <1>4. TypeOK'
    BY Zenon DEF OpFails, Finish, IInv, TypeOK
  <1>5. InPlace(t)'
    BY <1>1, <1>2, <1>3, Zenon DEF InPlace
  <1>6. AsDone(t)' /\ Owned(t)' = Owned(t)
    BY <1>1, <1>2, <1>3, Zenon DEF AsDone, Owned
  <1>7. Others(t)
    BY Zenon DEF Others, OpFails, Finish, IInv, TypeOK
  <1>8. Exchange(t)
    BY <1>3, <1>6 DEF Exchange, IInv, OneOwner
  <1> QED BY <1>4, <1>5, <1>6, <1>7, <1>8, StepOfOne

-----------------------------------------------------------------------------
LEMMA NextInv == IInv /\ [Next]_vars => IInv'
PROOF
  <1> SUFFICES ASSUME IInv, [Next]_vars PROVE IInv'
    OBVIOUS
  <1> USE DEF Dialling
  <1>1. ASSUME NEW t \in Tasks, NEW n \in 1..MaxAddrs, ConnectAddrs(t, n)
        PROVE  IInv'
    BY <1>1, BeginInv DEF ConnectAddrs, Kinds
  <1>2. ASSUME NEW t \in Tasks, NEW n \in 1..MaxAddrs, NEW kind \in Dialling,
               Dial(t, kind, n)
        PROVE  IInv'
    BY <1>2, BeginInv DEF Dial, Kinds
  <1>3. ASSUME NEW t \in Tasks, NEW kind \in {"accept", "open"}, Obtain(t, kind)
        PROVE  IInv'
    BY <1>3, BeginInv DEF Obtain, Kinds
  <1>4. ASSUME NEW t \in Tasks, Refuse(t)
        PROVE  IInv'
    <2>1. res[t] = None /\ running' = running /\ res' = res /\ t \notin running
      BY <1>4 DEF Refuse, AtStep, IInv, InPlace
    <2>2. running' = running \ {t} /\ res' = [res EXCEPT ![t] = None]
      BY <2>1 DEF IInv, TypeOK
    <2> QED BY <1>4, <2>1, <2>2, FailInv, Zenon DEF Refuse, AtStep
  <1>5. ASSUME NEW t \in Tasks, OpFailed(t)
        PROVE  IInv'
    <2>1. call[t] # NoCall
      BY <1>5 DEF OpFailed, Ended, IInv, InPlace, NoCall
    <2> QED BY <1>5, <2>1, FailInv, Zenon DEF OpFailed, Completes
  <1>6. ASSUME NEW t \in Tasks, TaskNext(t)
        PROVE  IInv'
    BY <1>4, <1>5, <1>6, StartInv, CreatedInv, BoundInv, ReturnInv DEF TaskNext
  <1>7. ASSUME NEW t \in Tasks, KernelNext(t)
        PROVE  IInv'
    BY <1>7, OpOpensInv, OpChangesInv, OpFailsInv DEF KernelNext
  <1>8. CASE UNCHANGED <<table, handle, call, running, res>>
    <2>1. TypeOK'
      BY <1>8, Zenon DEF IInv, TypeOK
    <2>2. OneOwner'
      BY <1>8 DEF IInv, OneOwner, Owned
    <2>3. ASSUME NEW t \in Tasks PROVE InPlace(t)' /\ AsDone(t)'
      <3>1. InPlace(t) /\ AsDone(t)
        BY Zenon DEF IInv
      <3>2. InPlace(t)'
        BY <1>8, <3>1, Zenon DEF InPlace
      <3>3. AsDone(t)'
        BY <1>8, <3>1 DEF AsDone, Sock
      <3> QED BY <3>2, <3>3
    <2> QED BY <2>1, <2>2, <2>3 DEF IInv
  <1>9. ASSUME NEW t \in Tasks, Interrupt(t) \/ TakeInterrupt(t)
        PROVE  IInv'
    BY <1>8, <1>9 DEF Interrupt, TakeInterrupt
  <1>10. CASE Exit
    BY <1>8, <1>10 DEF Exit
  <1>11. CASE UNCHANGED vars
    BY <1>8, <1>11 DEF vars
  <1> QED
    BY <1>1, <1>2, <1>3, <1>6, <1>7, <1>9, <1>10, <1>11, DropHandleInv DEF Next

LEMMA IInvHolds == Spec => []IInv
PROOF
  BY InitInv, NextInv, PTL DEF Spec

(* Whatever operation of a call fails, is refused or is cancelled, no file  *)
(* descriptor leaks and none has two owners (net/socket.rs, ops/io.rs).     *)
THEOREM OneOwnerHolds == Spec => []OneOwner
PROOF
  <1>1. IInv => OneOwner
    BY Zenon DEF IInv
  <1> QED BY <1>1, IInvHolds, PTL

(* A socket that a call has returned is connected, bound or listening, as   *)
(* the call says, whichever of the addresses worked (foreach_addr).         *)
THEOREM AsPromisedHolds == Spec => []AsPromised
PROOF
  <1>1. IInv => AsPromised
    BY Zenon DEF IInv, AsDone, AsPromised
  <1> QED BY <1>1, IInvHolds, PTL
=============================================================================
