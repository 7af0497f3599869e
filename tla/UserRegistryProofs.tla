------------------------- MODULE UserRegistryProofs -------------------------
(***************************************************************************)
(* What UserRegistry's handlers establish for any number of handlers, any  *)
(* names and any MAX_USERS.  Registrations are not synchronised, so most   *)
(* of what one expects of the table is false in general; the inductive     *)
(* invariant below isolates what survives: a registration that ran alone   *)
(* is never disturbed by those that come after it.                         *)
(***************************************************************************)
EXTENDS UserRegistry, TLAPS

\* h has fixed the slot it is going to write.
Located(h) == pc[h] \in {"load", "store", "number", "names", "rest"}

\* h is registering and has been the only one so far.
Lone(h) == Active(h) /\ h \notin overlapped

\* No record in front of slot n has the name that h registers.
FreshBelow(h, n) == \A s \in Slots : s < n => table[s].username # usrnm[h]

\* Every user_id is handed out after an increment of the counter, and a lost
\* increment never takes the counter back to zero.
IdsAboveBroadcast ==
    /\ \A h \in Handlers :
         /\ pc[h] \in {"number", "names", "rest"} => registered >= 1
         /\ pc[h] \in {"names", "rest"} => usrid[h] >= 2
         /\ pc[h] = "rest" => ptr[h] \in Slots
         /\ result[h] = 1 => pc[h] \in {"reply", "exited"}
    /\ NoBroadcastId

\* Where a handler that runs alone has brought the table.
LoneProgress(h) ==
    /\ \A g \in Handlers : Active(g) => g = h
    /\ pc[h] = "locate" => FreshBelow(h, registered)
    /\ Located(h) => FreshBelow(h, ptr[h])
    /\ pc[h] \in {"load", "store"} => ptr[h] = registered
    /\ pc[h] = "store" => loaded[h] = registered
    /\ pc[h] \in {"number", "names", "rest"} => registered = ptr[h] + 1
    /\ pc[h] \in {"names", "rest"} => usrid[h] = ptr[h] + 2
    /\ pc[h] = "rest" => /\ table[ptr[h]].username = usrnm[h]
                         /\ table[ptr[h]].password = pass[h]

\* What a handler that ran alone leaves: its record is complete, visible and
\* the first of its name, and whoever registers later works behind it.
Settled(h) ==
    /\ ptr[h] < registered
    /\ usrid[h] = ptr[h] + 2
    /\ table[ptr[h]] = [username |-> usrnm[h], password |-> pass[h],
                        user_id |-> usrid[h]]
    /\ FreshBelow(h, ptr[h])
    /\ \A g \in Handlers : Located(g) => ptr[h] < ptr[g]
    /\ \A g \in Handlers : pc[g] = "store" => ptr[h] < loaded[g]
    /\ \A g \in Handlers : Isolated(g) /\ g # h => ptr[g] # ptr[h]

IInv ==
    /\ TypeOK
    /\ IdsAboveBroadcast
    /\ \A h \in Handlers : Lone(h) => LoneProgress(h)
    /\ \A h \in Handlers : Isolated(h) => Settled(h)

-----------------------------------------------------------------------------
\* The initial accounts and the idle handlers have their types.
LEMMA InitTypeOK == Init => TypeOK
<1> SUFFICES ASSUME Init PROVE TypeOK
    OBVIOUS
<1> USE RegistryAssumption DEF Init, Slots, Record, ZeroRecord
<1>1. registered \in Nat
    OBVIOUS
<1>2. table \in [Slots -> Record]
    OBVIOUS
<1> QED
    BY <1>1, <1>2 DEF TypeOK, PCs

\* Every access to the table keeps the types of the shared and of the local
\* variables.
LEMMA StepTypeOK == TypeOK /\ [Next]_vars => TypeOK'
<1> SUFFICES ASSUME TypeOK, [Next]_vars PROVE TypeOK'
    OBVIOUS
<1> USE DEF TypeOK, PCs
<1>1. CASE UNCHANGED vars
    BY <1>1 DEF vars
<1>2. CASE Next
    <2>1. PICK h \in Handlers :
            \/ CheckDuplicate(h) \/ CheckOutside(h)
            \/ Locate(h) \/ LoadCount(h) \/ StoreCount(h) \/ AssignId(h)
            \/ CopyNames(h) \/ CopyRest(h) \/ CopyRestOutside(h)
            \/ CopyOutside(h) \/ Reply(h)
        BY <1>2 DEF Next
    <2>2. CASE CheckDuplicate(h)
        BY <2>2 DEF CheckDuplicate
    <2>3. CASE CheckOutside(h) \/ CopyOutside(h)
        BY <2>3 DEF CheckOutside, CopyOutside, Segfault
    <2>4. CASE Locate(h) \/ LoadCount(h) \/ StoreCount(h) \/ AssignId(h)
        BY <2>4 DEF Locate, LoadCount, StoreCount, AssignId
    <2>5. CASE CopyNames(h)
        BY <2>5 DEF CopyNames, Record
    <2>6. CASE CopyRest(h) \/ CopyRestOutside(h)
        <3>1. table' = [table EXCEPT ![ptr[h]].user_id = usrid[h]]
            BY <2>6 DEF CopyRest, CopyRestOutside
        <3>2. table' \in [Slots -> Record]
            BY <3>1 DEF Record
        <3> QED
            BY <2>6, <3>2 DEF CopyRest, CopyRestOutside
    <2>7. CASE Reply(h)
        BY <2>7 DEF Reply
    <2> QED
        BY <2>1, <2>2, <2>3, <2>4, <2>5, <2>6, <2>7
<1> QED
    BY <1>1, <1>2

\* The segment and the handlers' variables always have their types: counter
\* and slots never leave the natural numbers, no record loses a field.
THEOREM TypeCorrect == Spec => []TypeOK
    BY InitTypeOK, StepTypeOK, PTL DEF Spec

-----------------------------------------------------------------------------
LEMMA InitIds == Init => IdsAboveBroadcast
    BY RegistryAssumption
    DEF Init, IdsAboveBroadcast, NoBroadcastId, BroadcastType, Slots,
        ZeroRecord

\* No step hands out the broadcaster's message type.
LEMMA StepIds ==
    TypeOK /\ IdsAboveBroadcast /\ [Next]_vars => IdsAboveBroadcast'
<1> SUFFICES ASSUME TypeOK, IdsAboveBroadcast, [Next]_vars
             PROVE  IdsAboveBroadcast'
    OBVIOUS
<1> USE DEF TypeOK, IdsAboveBroadcast, NoBroadcastId, BroadcastType
<1>1. CASE UNCHANGED vars
    BY <1>1 DEF vars
<1>2. CASE Next
    <2>1. PICK h \in Handlers :
            \/ CheckDuplicate(h) \/ CheckOutside(h)
            \/ Locate(h) \/ LoadCount(h) \/ StoreCount(h) \/ AssignId(h)
            \/ CopyNames(h) \/ CopyRest(h) \/ CopyRestOutside(h)
            \/ CopyOutside(h) \/ Reply(h)
        BY <1>2 DEF Next
    <2>2. CASE CheckDuplicate(h)
        BY <2>2 DEF CheckDuplicate
    <2>3. CASE CheckOutside(h) \/ CopyOutside(h)
        BY <2>3 DEF CheckOutside, CopyOutside, Segfault
    <2>4. CASE Locate(h) \/ LoadCount(h)
        BY <2>4 DEF Locate, LoadCount
    <2>5. CASE StoreCount(h)
        BY <2>5 DEF StoreCount
    <2>6. CASE AssignId(h)
        BY <2>6 DEF AssignId
    <2>7. CASE CopyNames(h)
        BY <2>7 DEF CopyNames, Record
    <2>8. CASE CopyRest(h) \/ CopyRestOutside(h)
        BY <2>8 DEF CopyRest, CopyRestOutside, Record
    <2>9. CASE Reply(h)
        BY <2>9 DEF Reply
    <2> QED
        BY <2>1, <2>2, <2>3, <2>4, <2>5, <2>6, <2>7, <2>8, <2>9
<1> QED
    BY <1>1, <1>2

\* However registrations race, no record gets the message type on which the
\* broadcaster listens.
THEOREM IdsNeverBroadcast == Spec => []NoBroadcastId
<1>1. Init => TypeOK /\ IdsAboveBroadcast
    BY InitTypeOK, InitIds
<1>2. TypeOK /\ IdsAboveBroadcast /\ [Next]_vars
        => (TypeOK /\ IdsAboveBroadcast)'
    BY StepTypeOK, StepIds
<1>3. IdsAboveBroadcast => NoBroadcastId
    BY DEF IdsAboveBroadcast
<1> QED
    BY <1>1, <1>2, <1>3, PTL DEF Spec

-----------------------------------------------------------------------------
\* An idle server has no registration under way and none settled.
LEMMA InitIInv == Init => IInv
<1> SUFFICES ASSUME Init PROVE IInv
    OBVIOUS
<1>1. \A h \in Handlers : pc[h] = "accepted" /\ result[h] = 0
    BY DEF Init
<1>2. \A h \in Handlers : ~Lone(h)
    BY <1>1 DEF Lone, Active
<1>3. TypeOK /\ IdsAboveBroadcast
    BY InitTypeOK, InitIds
<1>4. \A h \in Handlers : ~Isolated(h)
    <2>1. 0 # 1
        OBVIOUS
    <2> QED
        BY <1>1, <2>1 DEF Isolated
<1> QED
    BY <1>2, <1>3, <1>4 DEF IInv

\* A step of another handler ends the loneliness of k or does not touch it.
LEMMA StepLone ==
    IInv /\ Next => \A k \in Handlers : Lone(k)' => LoneProgress(k)'
<1> SUFFICES ASSUME IInv, Next,
                    NEW k \in Handlers, Lone(k)'
             PROVE  LoneProgress(k)'
    OBVIOUS
<1> USE DEF IInv, TypeOK, PCs, Lone, Active, Located
<1>1. PICK h \in Handlers :
        \/ CheckDuplicate(h) \/ CheckOutside(h)
        \/ Locate(h) \/ LoadCount(h) \/ StoreCount(h) \/ AssignId(h)
        \/ CopyNames(h) \/ CopyRest(h) \/ CopyRestOutside(h)
        \/ CopyOutside(h) \/ Reply(h)
    BY DEF Next
<1>2. CASE CheckDuplicate(h)
    <2>1. CASE pc'[h] = "locate"
        <3>1. \A g \in Handlers : ~Active(g)
            BY <1>2, <2>1 DEF CheckDuplicate
        <3>2. k = h
            BY <1>2, <3>1 DEF CheckDuplicate
        <3>3. FreshBelow(h, registered)'
            BY <1>2, <2>1
            DEF CheckDuplicate, FreshBelow, Known
        <3> QED
            BY <1>2, <2>1, <3>1, <3>2, <3>3 DEF CheckDuplicate, LoneProgress
    <2>2. CASE pc'[h] = "reply"
        BY <1>2, <2>2 DEF CheckDuplicate, LoneProgress, FreshBelow
    <2> QED
        BY <1>2, <2>1, <2>2 DEF CheckDuplicate
<1>3. CASE CheckOutside(h) \/ Reply(h)
    BY <1>3 DEF CheckOutside, Segfault, Reply, LoneProgress, FreshBelow
<1>4. CASE Active(h)
    <2>1. /\ k = h
          /\ LoneProgress(h)
          /\ \A g \in Handlers : Active(g) => g = h
        BY <1>1, <1>4
        DEF CheckDuplicate, CheckOutside, Segfault, Locate, LoadCount,
            StoreCount, AssignId, CopyNames, CopyRest, CopyRestOutside,
            CopyOutside, Reply, LoneProgress
    <2>2. CASE Locate(h)
        BY <2>1, <2>2 DEF Locate, LoneProgress, FreshBelow
    <2>3. CASE LoadCount(h)
        BY <2>1, <2>3 DEF LoadCount, LoneProgress, FreshBelow
    <2>4. CASE StoreCount(h)
        BY <2>1, <2>4 DEF StoreCount, LoneProgress, FreshBelow
    <2>5. CASE AssignId(h)
        BY <2>1, <2>5 DEF AssignId, LoneProgress, FreshBelow
    <2>6. CASE CopyNames(h)
        BY <2>1, <2>6 DEF CopyNames, LoneProgress, FreshBelow, Slots, Record
    <2>7. CASE CopyRest(h) \/ CopyRestOutside(h) \/ CopyOutside(h)
        BY <2>1, <2>7 DEF CopyRest, CopyRestOutside, CopyOutside, Segfault
    <2> QED
        BY <1>1, <1>4, <2>2, <2>3, <2>4, <2>5, <2>6, <2>7
        DEF CheckDuplicate, CheckOutside, Reply
<1> QED
    BY <1>1, <1>2, <1>3, <1>4
    DEF Locate, LoadCount, StoreCount, AssignId, CopyNames, CopyRest,
        CopyRestOutside, CopyOutside

\* What settled stays settled, and a lone handler that finishes settles.
LEMMA StepSettled ==
    IInv /\ Next => \A k \in Handlers : Isolated(k)' => Settled(k)'
<1> SUFFICES ASSUME IInv, Next,
                    NEW k \in Handlers, Isolated(k)'
             PROVE  Settled(k)'
    OBVIOUS
<1> USE DEF IInv, TypeOK, PCs, Isolated, Located
<1>1. PICK h \in Handlers :
        \/ CheckDuplicate(h) \/ CheckOutside(h)
        \/ Locate(h) \/ LoadCount(h) \/ StoreCount(h) \/ AssignId(h)
        \/ CopyNames(h) \/ CopyRest(h) \/ CopyRestOutside(h)
        \/ CopyOutside(h) \/ Reply(h)
    BY DEF Next
<1>2. CASE CheckDuplicate(h)
    BY <1>2 DEF CheckDuplicate, Settled, FreshBelow, IdsAboveBroadcast
<1>3. CASE CheckOutside(h) \/ Reply(h)
    BY <1>3 DEF CheckOutside, Segfault, Reply, Settled, FreshBelow
<1>4. CASE Locate(h)
    BY <1>4 DEF Locate, Settled, FreshBelow, IdsAboveBroadcast
<1>5. CASE LoadCount(h)
    BY <1>5 DEF LoadCount, Settled, FreshBelow
<1>6. CASE StoreCount(h)
    BY <1>6 DEF StoreCount, Settled, FreshBelow
<1>7. CASE AssignId(h)
    BY <1>7 DEF AssignId, Settled, FreshBelow, IdsAboveBroadcast
<1>8. CASE CopyNames(h)
    <2>1. Settled(k) /\ ptr[k] \in Slots /\ ptr[k] < ptr[h]
        BY <1>8, RegistryAssumption DEF CopyNames, Settled, Slots
    <2>2. \A s \in Slots : s # ptr[h] => table'[s] = table[s]
        BY <1>8 DEF CopyNames
    <2>3. table'[ptr[k]] = table[ptr[k]]
        BY <2>1, <2>2
    <2>4. FreshBelow(k, ptr[k])'
        BY <1>8, <2>1, <2>2 DEF CopyNames, Settled, FreshBelow, Slots
    <2> QED
        BY <1>8, <2>1, <2>3, <2>4 DEF CopyNames, Settled
<1>9. CASE CopyRest(h)
    <2>1. CASE k = h
        <3>1. LoneProgress(h) /\ h \notin overlapped /\ ptr[h] < MaxUsers
            BY <1>9, <2>1 DEF CopyRest, Lone, Active
        <3>2. \A g \in Handlers : g # h => ~Located(g) /\ ~Located(g)'
            BY <1>9, <3>1 DEF CopyRest, LoneProgress, Active
        <3>3. table'[ptr[h]] = [username |-> usrnm[h], password |-> pass[h],
                                user_id |-> usrid[h]]
            <4>1. /\ ptr[h] \in Slots
                  /\ table[ptr[h]].username = usrnm[h]
                  /\ table[ptr[h]].password = pass[h]
                BY <1>9, <3>1 DEF CopyRest, LoneProgress, IdsAboveBroadcast
            <4>2. table'[ptr[h]] = [table[ptr[h]] EXCEPT !.user_id = usrid[h]]
                BY <1>9, <4>1 DEF CopyRest
            <4>3. table[ptr[h]] \in Record
                BY <4>1
            <4> QED
                BY <4>1, <4>2, <4>3 DEF Record
        <3>4. \A g \in Handlers : Isolated(g)' /\ g # h => ptr[g] # ptr[h]
            <4> SUFFICES ASSUME NEW g \in Handlers, Isolated(g)', g # h
                         PROVE  ptr[g] # ptr[h]
                OBVIOUS
            <4>1. Settled(g) /\ Located(h)
                BY <1>9 DEF CopyRest
            <4>2. ptr[g] < ptr[h]
                BY <4>1 DEF Settled
            <4> QED
                BY <4>2
        <3>5. FreshBelow(h, ptr[h])'
            BY <1>9, <3>1 DEF CopyRest, LoneProgress, FreshBelow, Slots
        <3>6. ptr[h] < registered /\ usrid[h] = ptr[h] + 2
            BY <1>9, <3>1 DEF CopyRest, LoneProgress
        <3> QED
            BY <1>9, <2>1, <3>2, <3>3, <3>4, <3>5, <3>6 DEF CopyRest, Settled
    <2>2. CASE k # h
        <3>1. Settled(k)
            BY <1>9, <2>2 DEF CopyRest
        <3>2. ptr[k] < ptr[h]
            BY <1>9, <3>1 DEF CopyRest, Settled
        <3>3. table'[ptr[k]] = table[ptr[k]]
            BY <1>9, <3>2 DEF CopyRest, Slots
        <3>4. FreshBelow(k, ptr[k])'
            BY <1>9, <3>1, <3>2 DEF CopyRest, Settled, FreshBelow, Slots
        <3> QED
            BY <1>9, <2>2, <3>1, <3>2, <3>3, <3>4 DEF CopyRest, Settled
    <2> QED
        BY <2>1, <2>2
<1>10. CASE CopyRestOutside(h)
    BY <1>10 DEF CopyRestOutside, Settled, FreshBelow, Slots, Record
<1>11. CASE CopyOutside(h)
    BY <1>11, RegistryAssumption
    DEF CopyOutside, Segfault, Settled, FreshBelow, Slots
<1> QED
    BY <1>1, <1>2, <1>3, <1>4, <1>5, <1>6, <1>7, <1>8, <1>9, <1>10, <1>11

LEMMA StutterIInv == IInv /\ UNCHANGED vars => IInv'
    BY DEF IInv, vars, TypeOK, IdsAboveBroadcast, NoBroadcastId, Lone, Active,
           LoneProgress, FreshBelow, Located, Isolated, Settled

LEMMA StepIInv == IInv /\ [Next]_vars => IInv'
    BY StutterIInv, StepTypeOK, StepIds, StepLone, StepSettled DEF IInv

LEMMA InvariantIInv == Spec => []IInv
    BY InitIInv, StepIInv, PTL DEF Spec

\* The lookup by name has one answer: two slots that are both first are equal.
LEMMA FirstIsUnique ==
    ASSUME NEW nm, NEW s, NEW t, IsFirst(nm, s), IsFirst(nm, t)
    PROVE  s = t
    BY DEF IsFirst, Slots

\* A user who registered while nobody else did can log in and be found for
\* ever after, whatever races between later registrations do to the table.
THEOREM IsolatedResolves == Spec => []IsolatedRegistrationResolves
<1>1. IInv => IsolatedRegistrationResolves
    <2> SUFFICES ASSUME IInv, NEW h \in Handlers, Isolated(h)
                 PROVE  /\ VerifyUser(usrnm[h], pass[h])
                        /\ FindUser(usrnm[h]) = ptr[h]
                        /\ table[ptr[h]].user_id = usrid[h]
        BY DEF IsolatedRegistrationResolves
    <2>1. IsFirst(usrnm[h], ptr[h])
        <3>1. /\ Settled(h)
              /\ ptr[h] \in Slots
              /\ table[ptr[h]].username = usrnm[h]
            BY RegistryAssumption DEF IInv, TypeOK, Settled, Isolated, Slots
        <3> QED
            BY <3>1 DEF Settled, FreshBelow, IsFirst
    <2>2. FindUser(usrnm[h]) = ptr[h]
        BY <2>1, FirstIsUnique DEF FindUser
    <2>3. /\ table[ptr[h]].password = pass[h]
          /\ table[ptr[h]].user_id = usrid[h]
        <3>1. table[ptr[h]] = [username |-> usrnm[h], password |-> pass[h],
                               user_id |-> usrid[h]]
            BY DEF IInv, Settled
        <3> QED
            BY <3>1
    <2>4. Known(usrnm[h])
        BY <2>1 DEF Known, IsFirst
    <2> QED
        BY <2>2, <2>3, <2>4 DEF VerifyUser
<1> QED
    BY <1>1, InvariantIInv, PTL

\* Two users who registered while nobody else did never share a message type.
THEOREM IsolatedDistinct == Spec => []IsolatedIdsDistinct
<1>1. IInv => IsolatedIdsDistinct
    <2> SUFFICES ASSUME IInv, NEW g \in Handlers, NEW h \in Handlers,
                        Isolated(g), Isolated(h), g # h
                 PROVE  usrid[g] # usrid[h]
        BY DEF IsolatedIdsDistinct
    <2>1. /\ usrid[g] = ptr[g] + 2
          /\ usrid[h] = ptr[h] + 2
          /\ ptr[g] # ptr[h]
        BY DEF IInv, Settled
    <2> QED
        BY <2>1 DEF IInv, TypeOK
<1> QED
    BY <1>1, InvariantIInv, PTL
=============================================================================
