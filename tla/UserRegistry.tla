---------------------------- MODULE UserRegistry ----------------------------
(***************************************************************************)
(* The table of accounts that the processes of the chat server share: a    *)
(* counter and an array of MAX_USERS records in a System V shared-memory   *)
(* segment, and create_new_user, which every handler of a "new user"       *)
(* connection runs on it.  The code takes no lock (the semaphore is a      *)
(* "todo" comment), so one action below is one access to shared memory.    *)
(***************************************************************************)
EXTENDS Integers

CONSTANTS Handlers,    \* child processes that serve a connection in mode 1
          Names,       \* usernames a client may type
          Passwords,   \* passwords a client may type
          NoText,      \* the empty string of a zero-filled record
          MaxUsers     \* MAX_USERS, the records the segment is sized for

ASSUME RegistryAssumption ==
    /\ MaxUsers \in Nat \ {0}
    /\ NoText \notin Names \cup Passwords

(***************************************************************************)
(* The segment is mapped in whole pages.  Behind the MaxUsers records lies *)
(* padding that holds the leading fields of one more record (username to   *)
(* user_id) but not all of it: that is slot MaxUsers.  What lies behind is *)
(* not part of the segment.                                                *)
(***************************************************************************)
Slots == 0..MaxUsers

Record == [username : Names \cup {NoText},
           password : Passwords \cup {NoText},
           user_id  : Nat]

ZeroRecord == [username |-> NoText, password |-> NoText, user_id |-> 0]

BroadcastType == 1     \* the message type on which the broadcaster listens

VARIABLES
    registered,   \* *registered_users
    table,        \* the records at user_arr_begin
    pc,           \* where in create_new_user a handler is
    usrnm, pass,  \* the two fields of the request that the code compares
    ptr,          \* index of the record that ptr points to
    loaded,       \* the value that (*registered_users)++ read
    usrid,        \* usrid, and new_usr.user_id
    result,       \* what create_new_user returned, 0 before it has
    overlapped    \* history: handlers whose registration ran concurrently
                  \* with that of another handler

vars == <<registered, table, pc, usrnm, pass, ptr, loaded, usrid, result,
          overlapped>>

PCs == {"accepted", "locate", "load", "store", "number", "names", "rest",
        "reply", "exited", "crashed"}

TypeOK ==
    /\ registered \in Nat
    /\ table \in [Slots -> Record]
    /\ pc \in [Handlers -> PCs]
    /\ usrnm \in [Handlers -> Names \cup {NoText}]
    /\ pass \in [Handlers -> Passwords \cup {NoText}]
    /\ ptr \in [Handlers -> Nat]
    /\ loaded \in [Handlers -> Nat]
    /\ usrid \in [Handlers -> Nat]
    /\ result \in [Handlers -> 0..2]
    /\ overlapped \subseteq Handlers

\* The accounts of an idle server: n users have registered one after the
\* other, the first got user_id 2.  n = 0 is the server as main leaves it.
Init ==
    /\ \E n \in 0..MaxUsers, nms \in [Slots -> Names],
          pws \in [Slots -> Passwords] :
         /\ \A s, t \in Slots : s < t /\ t < n => nms[s] # nms[t]
         /\ registered = n
         /\ table = [s \in Slots |->
                        IF s < n THEN [username |-> nms[s],
                                       password |-> pws[s],
                                       user_id  |-> s + 2]
                                 ELSE ZeroRecord]
    /\ pc = [h \in Handlers |-> "accepted"]
    /\ usrnm = [h \in Handlers |-> NoText]
    /\ pass = [h \in Handlers |-> NoText]
    /\ ptr = [h \in Handlers |-> 0]
    /\ loaded = [h \in Handlers |-> 0]
    /\ usrid = [h \in Handlers |-> 0]
    /\ result = [h \in Handlers |-> 0]
    /\ overlapped = {}

-----------------------------------------------------------------------------
\* Slot s is the first visible record that carries the username nm.
IsFirst(nm, s) ==
    /\ s \in Slots
    /\ s < registered
    /\ table[s].username = nm
    /\ \A t \in Slots : t < s => table[t].username # nm

\* find_user returns a record rather than NULL.
Known(nm) == \E s \in Slots : s < registered /\ table[s].username = nm

\* find_user: the slot of the first visible record of that name.
FindUser(nm) == CHOOSE s \in Slots : IsFirst(nm, s)

\* verify_user: the first record of that name decides, whatever follows it.
VerifyUser(nm, pw) == Known(nm) /\ table[FindUser(nm)].password = pw

\* A scan that finds no match reads every visible record, also those that
\* lie outside the segment; such a read may kill the process.
ScansOutside(nm) == ~Known(nm) /\ registered > MaxUsers + 1

-----------------------------------------------------------------------------
\* A handler between its duplicate check and the end of its record copy.
Active(h) == pc[h] \in {"locate", "load", "store", "number", "names", "rest"}

\* The handler dies of SIGSEGV before it replies to its client.
Segfault(h) ==
    /\ pc' = [pc EXCEPT ![h] = "crashed"]
    /\ UNCHANGED <<registered, table, usrnm, pass, ptr, loaded, usrid,
                   result, overlapped>>

\* Mutant of CheckDuplicate: the name is not looked up.
CheckNothing(h) ==
    /\ pc[h] = "accepted"
    /\ \E nm \in Names, pw \in Passwords :
         /\ usrnm' = [usrnm EXCEPT ![h] = nm]
         /\ pass' = [pass EXCEPT ![h] = pw]
    /\ pc' = [pc EXCEPT ![h] = "locate"]
    /\ overlapped' = LET others == {g \in Handlers : Active(g)}
                     IN IF others = {} THEN overlapped
                                       ELSE overlapped \cup others \cup {h}
    /\ UNCHANGED <<registered, table, ptr, loaded, usrid, result>>

\* The request is split into its fields and find_user looks for the name.
CheckDuplicate(h) ==
    /\ pc[h] = "accepted"
    /\ \E nm \in Names, pw \in Passwords :
         /\ usrnm' = [usrnm EXCEPT ![h] = nm]
         /\ pass' = [pass EXCEPT ![h] = pw]
         /\ \/ /\ Known(nm)
               /\ pc' = [pc EXCEPT ![h] = "reply"]
               /\ result' = [result EXCEPT ![h] = 2]
               /\ UNCHANGED overlapped
            \/ /\ ~Known(nm)
               /\ pc' = [pc EXCEPT ![h] = "locate"]
               /\ overlapped' =
                    LET others == {g \in Handlers : Active(g)}
                    IN IF others = {} THEN overlapped
                                      ELSE overlapped \cup others \cup {h}
               /\ UNCHANGED result
    /\ UNCHANGED <<registered, table, ptr, loaded, usrid>>

\* find_user runs past the end of the segment.
CheckOutside(h) ==
    /\ pc[h] = "accepted"
    /\ \E nm \in Names : ScansOutside(nm)
    /\ Segfault(h)

\* Mutant of Locate: the last record that is counted, not the one behind it.
LocateLast(h) ==
    /\ pc[h] = "locate"
    /\ pc' = [pc EXCEPT ![h] = "load"]
    /\ ptr' = [ptr EXCEPT ![h] = registered - 1]
    /\ UNCHANGED <<registered, table, usrnm, pass, loaded, usrid, result,
                   overlapped>>

\* ptr is advanced *registered_users times from the start of the array.
Locate(h) ==
    /\ pc[h] = "locate"
    /\ pc' = [pc EXCEPT ![h] = "load"]
    /\ ptr' = [ptr EXCEPT ![h] = registered]
    /\ UNCHANGED <<registered, table, usrnm, pass, loaded, usrid, result,
                   overlapped>>

\* The read and the write of (*registered_users)++.
LoadCount(h) ==
    /\ pc[h] = "load"
    /\ pc' = [pc EXCEPT ![h] = "store"]
    /\ loaded' = [loaded EXCEPT ![h] = registered]
    /\ UNCHANGED <<registered, table, usrnm, pass, ptr, usrid, result,
                   overlapped>>

\* Mutant of StoreCount: the new account is not counted.
StoreNothing(h) ==
    /\ pc[h] = "store"
    /\ pc' = [pc EXCEPT ![h] = "number"]
    /\ UNCHANGED <<registered, table, usrnm, pass, ptr, loaded, usrid, result,
                   overlapped>>

StoreCount(h) ==
    /\ pc[h] = "store"
    /\ pc' = [pc EXCEPT ![h] = "number"]
    /\ registered' = loaded[h] + 1
    /\ UNCHANGED <<table, usrnm, pass, ptr, loaded, usrid, result, overlapped>>

\* Mutant of AssignId: the counter itself is the user_id.
AssignCount(h) ==
    /\ pc[h] = "number"
    /\ pc' = [pc EXCEPT ![h] = "names"]
    /\ usrid' = [usrid EXCEPT ![h] = registered]
    /\ UNCHANGED <<registered, table, usrnm, pass, ptr, loaded, result,
                   overlapped>>

\* usrid = (*registered_users)+1 reads the counter once more.
AssignId(h) ==
    /\ pc[h] = "number"
    /\ pc' = [pc EXCEPT ![h] = "names"]
    /\ usrid' = [usrid EXCEPT ![h] = registered + 1]
    /\ UNCHANGED <<registered, table, usrnm, pass, ptr, loaded, result,
                   overlapped>>

\* *ptr = new_usr, the fields up to the password.
CopyNames(h) ==
    /\ pc[h] = "names"
    /\ ptr[h] \in Slots
    /\ pc' = [pc EXCEPT ![h] = "rest"]
    /\ table' = [table EXCEPT ![ptr[h]].username = usrnm[h],
                              ![ptr[h]].password = pass[h]]
    /\ UNCHANGED <<registered, usrnm, pass, ptr, loaded, usrid, result,
                   overlapped>>

\* *ptr = new_usr, user_id and the fields behind it.
CopyRest(h) ==
    /\ pc[h] = "rest"
    /\ pc' = [pc EXCEPT ![h] = "reply"]
    /\ table' = [table EXCEPT ![ptr[h]].user_id = usrid[h]]
    /\ result' = [result EXCEPT ![h] = 1]
    /\ UNCHANGED <<registered, usrnm, pass, ptr, loaded, usrid, overlapped>>

\* The tail of a record copied into the padding falls on the next page: the
\* handler dies once user_id is written.  (If that page happens to be mapped
\* in this process the copy goes through: CopyRest.)
CopyRestOutside(h) ==
    /\ pc[h] = "rest"
    /\ ptr[h] = MaxUsers
    /\ pc' = [pc EXCEPT ![h] = "crashed"]
    /\ table' = [table EXCEPT ![ptr[h]].user_id = usrid[h]]
    /\ UNCHANGED <<registered, usrnm, pass, ptr, loaded, usrid, result,
                   overlapped>>

\* A record copied behind the padding: the handler dies, or overwrites memory
\* that is not shared and returns.
CopyOutside(h) ==
    /\ pc[h] = "names"
    /\ ptr[h] \notin Slots
    /\ \/ Segfault(h)
       \/ /\ pc' = [pc EXCEPT ![h] = "reply"]
          /\ result' = [result EXCEPT ![h] = 1]
          /\ UNCHANGED <<registered, table, usrnm, pass, ptr, loaded, usrid,
                         overlapped>>

\* "createuser;1" or "createuser;2" is sent, the handler closes and exits.
Reply(h) ==
    /\ pc[h] = "reply"
    /\ pc' = [pc EXCEPT ![h] = "exited"]
    /\ UNCHANGED <<registered, table, usrnm, pass, ptr, loaded, usrid, result,
                   overlapped>>

Next == \E h \in Handlers :
    \/ CheckDuplicate(h) \/ CheckOutside(h)
    \/ Locate(h) \/ LoadCount(h) \/ StoreCount(h) \/ AssignId(h)
    \/ CopyNames(h) \/ CopyRest(h) \/ CopyRestOutside(h) \/ CopyOutside(h)
    \/ Reply(h)

Spec == Init /\ [][Next]_vars

-----------------------------------------------------------------------------
\* A registration that succeeded inside the array and that no other
\* registration overlapped.
Isolated(h) == result[h] = 1 /\ h \notin overlapped /\ ptr[h] < MaxUsers

\* Once an isolated registration has succeeded, its username resolves to its
\* own complete record for ever, so that its owner can log in and be written
\* to: no later registration, however it races with others, overwrites the
\* record, hides it behind a counter that went backwards, or puts a record of
\* the same name in front of it.
IsolatedRegistrationResolves ==
    \A h \in Handlers : Isolated(h) =>
        /\ VerifyUser(usrnm[h], pass[h])
        /\ FindUser(usrnm[h]) = ptr[h]
        /\ table[ptr[h]].user_id = usrid[h]

\* Two isolated registrations never get the same user_id, so that no listener
\* of one can fetch a private message addressed to the other.
IsolatedIdsDistinct ==
    \A g, h \in Handlers :
        Isolated(g) /\ Isolated(h) /\ g # h => usrid[g] # usrid[h]

\* No record ever carries the message type of the broadcaster: a listener
\* would steal the broadcasts.  Holds however registrations race.
NoBroadcastId == \A s \in Slots : table[s].user_id # BroadcastType

-----------------------------------------------------------------------------
\* "duplicate username verification": no two visible records share a name.
UniqueUsernames ==
    \A s, t \in Slots :
        s < registered /\ t < registered /\ s # t /\ table[s].username # NoText
            => table[s].username # table[t].username
=============================================================================
