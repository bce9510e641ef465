---------------------------- MODULE Devices_proofs ----------------------------
(***************************************************************************)
(* Theorems about Devices, for any followers, devices and requests.  The   *)
(* request counts on rows it read at its start, and approvals and removals *)
(* go on beside it.  What is inductive is that removals are all it can     *)
(* have missed: every device the follower has is one it read or one it has *)
(* added (Seen), and it has counted at least as many (Tally).              *)
(***************************************************************************)
EXTENDS Devices, FiniteSetTheorems, SequenceTheorems, TLAPS

Seen == message.existing \cup message.added

Tally == Cardinality(Seen) <= Counted

(* Of the request being handled. *)
Handling ==
  /\ message \in Message /\ message.todo # <<>>
  /\ Registered(message.uid) \subseteq Seen
  /\ Tally

Types ==
  /\ rows \in [Followers -> [Devices -> Row \cup {NoRow}]]
  /\ requests \in Nat
  /\ \A f \in Followers : Cardinality(Registered(f)) <= Cap

Inv == Types /\ (Busy => Handling)

USE DevicesTypes

----------------------------------------------------------------------------
LEMMA Subsets ==
  ASSUME NEW S \in SUBSET Devices
  PROVE  IsFiniteSet(S) /\ Cardinality(S) \in Nat
<1>1. IsFiniteSet(S)
  BY FS_Subset
<1> QED BY <1>1, FS_CardinalityType

LEMMA Smaller ==
  ASSUME NEW S \in SUBSET Devices, NEW T \in SUBSET S
  PROVE  Cardinality(T) <= Cardinality(S)
BY Subsets, FS_Subset

LEMMA OneMore ==
  ASSUME NEW S \in SUBSET Devices, NEW d \in Devices
  PROVE  Cardinality(S \cup {d}) <= Cardinality(S) + 1
<1>1. IsFiniteSet(S) /\ Cardinality(S) \in Nat
  BY Subsets
<1>2. Cardinality(S \cup {d}) = IF d \in S THEN Cardinality(S) ELSE Cardinality(S) + 1
  BY <1>1, FS_AddElement
<1> QED BY <1>1, <1>2

(* What is left of a request that names more than one device. *)
LEMMA RestOfRequest ==
  ASSUME NEW s \in Seq(Entry), s # <<>>, Len(s) # 1
  PROVE  Tail(s) \in Seq(Entry) /\ Tail(s) # <<>>
<1>1. Len(s) \in Nat /\ Len(s) # 0
  BY EmptySeq
<1>2. Tail(s) \in Seq(Entry) /\ Len(Tail(s)) = Len(s) - 1
  BY HeadTailProperties
<1>3. Len(Tail(s)) # 0
  BY <1>1, <1>2
<1> QED BY <1>2, <1>3, EmptySeq

(* Where fewer devices are registered the invariant's counts still hold. *)
LEMMA FewerRows ==
  ASSUME Inv, UNCHANGED message,
         \A f \in Followers : Registered(f)' \subseteq Registered(f)
  PROVE  /\ \A f \in Followers : Cardinality(Registered(f)') <= Cap
         /\ Busy' => Handling'
<1>1. ASSUME NEW f \in Followers PROVE Cardinality(Registered(f)') <= Cap
  <2>1. Registered(f) \in SUBSET Devices /\ Registered(f)' \in SUBSET Registered(f)
    BY DEF Registered
  <2>2. Cardinality(Registered(f)) \in Nat /\ Cardinality(Registered(f)') \in Nat
    BY <2>1, Subsets
  <2> QED BY <1>1, <2>1, <2>2, Smaller DEF Inv, Types
<1>2. CASE Busy
  <2>1. Handling
    BY <1>2 DEF Inv
  <2>2. message.uid \in Followers
    BY <2>1 DEF Handling, Message
  <2>3. Registered(message.uid)' \subseteq Registered(message.uid)
    BY <2>2 DEF Registered
  <2> QED BY <1>1, <2>1, <2>3 DEF Handling, Seen, Tally, Counted
<1> QED BY <1>1, <1>2 DEF Busy

LEMMA InitInv == Init => Inv
<1> SUFFICES ASSUME Init PROVE Inv
  OBVIOUS
<1>1. \A f \in Followers : Registered(f) = {}
  BY DEF Init, Registered
<1>2. \A f \in Followers : Cardinality(Registered(f)) <= Cap
  BY <1>1, FS_EmptySet
<1> QED BY <1>2 DEF Init, Inv, Types, Busy

LEMMA FollowRequestInv ==
  ASSUME Inv, NEW f \in Followers, NEW entries \in Entries, FollowRequest(f, entries)
  PROVE  Inv'
<1>1. entries \in Seq(Entry)
  BY DEF Entries
<1>2. Registered(f) \in SUBSET Devices
  BY DEF Registered
<1>3. /\ message'.uid = f /\ message'.todo = entries /\ message'.additions = 0
      /\ message'.existing = Registered(f) /\ message'.added = {}
      /\ message' \in Message /\ rows' = rows
  BY <1>1, <1>2 DEF FollowRequest, Message
<1>4. Registered(message.uid)' \subseteq Seen'
  BY <1>3 DEF Registered, Seen
<1>5. Seen' = Registered(f) /\ Counted' = Cardinality(Registered(f))
  BY <1>2, <1>3, Subsets DEF Seen, Counted
<1>6. Handling'
  BY <1>2, <1>3, <1>4, <1>5, Subsets DEF Handling, Tally, FollowRequest
<1>7. Types'
  BY <1>3 DEF Inv, Types, FollowRequest, Count, Registered
<1> QED BY <1>6, <1>7 DEF Inv

(* The message goes on with its next entry and its rows are left alone. *)
LEMMA SkipInv ==
  ASSUME Inv, Busy, Skip, UNCHANGED <<rows, requests>>
  PROVE  Inv'
<1>1. Handling
  BY DEF Inv
<1>2. Types'
  BY DEF Inv, Types, Registered
<1>3. CASE Len(message.todo) = 1
  BY <1>2, <1>3 DEF Skip, Inv, Busy
<1>4. CASE Len(message.todo) # 1
  <2>1. message.todo \in Seq(Entry) /\ message.todo # <<>>
    BY <1>1 DEF Handling, Message
  <2>2. Tail(message.todo) \in Seq(Entry) /\ Tail(message.todo) # <<>>
    BY <1>4, <2>1, RestOfRequest
  <2>3. message' = [message EXCEPT !.todo = Tail(message.todo)]
    BY <1>4 DEF Skip
  <2>4. /\ message' \in Message /\ message'.todo # <<>> /\ message'.uid = message.uid
        /\ message'.existing = message.existing /\ message'.added = message.added
        /\ message'.additions = message.additions
    BY <1>1, <2>2, <2>3 DEF Handling, Message
  <2>5. Registered(message.uid)' = Registered(message.uid)
    BY <2>4 DEF Registered
  <2> QED BY <1>1, <1>2, <2>4, <2>5 DEF Inv, Handling, Seen, Tally, Counted
<1> QED BY <1>3, <1>4

LEMMA DoneInv ==
  ASSUME Inv, Done, UNCHANGED <<rows, requests>>
  PROVE  Inv'
BY DEF Inv, Types, Done, Busy, Registered

(* What a request adds, it has not seen; and no other follower's row moves. *)
LEMMA AddDeviceStep ==
  ASSUME Inv, AddDevice
  PROVE  /\ Handling /\ NextEntry \in [device : Devices, key : Keys]
         /\ NextEntry.device \notin message.existing
         /\ \A f \in Followers \ {message.uid} : rows'[f] = rows[f]
         /\ \A d \in Devices \ {NextEntry.device} :
              rows'[message.uid][d] = rows[message.uid][d]
         /\ rows'[message.uid][NextEntry.device] \in Row
         /\ rows' \in [Followers -> [Devices -> Row \cup {NoRow}]]
<1>1. Handling /\ message.uid \in Followers /\ message.todo \in Seq(Entry) /\ message.todo # <<>>
  BY DEF Inv, AddDevice, Handling, Message
<1>2. NextEntry \in [device : Devices, key : Keys]
  BY <1>1 DEF AddDevice, NextEntry, Entry
<1>3. NextEntry.device \in Devices /\ NextEntry.key \in Keys
  BY <1>2
<1> DEFINE new == [key |-> NextEntry.key, allowed |-> IF AutoAccept THEN "Allowed" ELSE "Pending"]
<1>4. new \in Row
  BY <1>3 DEF Row
<1>5. rows' = [rows EXCEPT ![message.uid][NextEntry.device] = new]
  BY DEF AddDevice
<1>6. rows \in [Followers -> [Devices -> Row \cup {NoRow}]]
  BY DEF Inv, Types
<1> HIDE DEF new
<1> QED BY <1>1, <1>2, <1>3, <1>4, <1>5, <1>6 DEF AddDevice, Known

LEMMA AddDeviceInv ==
  ASSUME Inv, AddDevice
  PROVE  Inv'
<1>0. PICK uid \in Followers, d \in Devices : uid = message.uid /\ d = NextEntry.device
  BY AddDeviceStep DEF Handling, Message
<1>1. Handling
  BY AddDeviceStep
<1>2. Registered(uid)' \subseteq Registered(uid) \cup {d}
  BY <1>0, AddDeviceStep DEF Registered
<1>3. Seen \in SUBSET Devices /\ Seen \cup {d} \in SUBSET Devices
  BY <1>1 DEF Handling, Message, Seen
<1>4. Cardinality(Seen \cup {d}) <= Counted + 1 /\ Counted \in Nat /\ Cardinality(Seen \cup {d}) \in Nat
  <2>1. Cardinality(message.existing) \in Nat /\ message.additions \in Nat
    BY <1>1, Subsets DEF Handling, Message
  <2>2. Cardinality(Seen) \in Nat /\ Cardinality(Seen \cup {d}) \in Nat
    BY <1>3, Subsets
  <2>3. Cardinality(Seen \cup {d}) <= Cardinality(Seen) + 1
    BY <1>1, <1>3, OneMore
  <2> QED BY <1>1, <2>1, <2>2, <2>3 DEF Handling, Tally, Counted
<1>5. \A f \in Followers : Cardinality(Registered(f)') <= Cap
  <2>1. Registered(uid)' \in SUBSET (Seen \cup {d})
    BY <1>0, <1>1, <1>2 DEF Handling
  <2>2. Cardinality(Registered(uid)') <= Cardinality(Seen \cup {d}) /\ Cardinality(Registered(uid)') \in Nat
    BY <1>3, <2>1, Smaller, Subsets
  <2>3. Counted < Cap
    BY DEF AddDevice
  <2>4. Cardinality(Registered(uid)') <= Cap
    BY <1>4, <2>2, <2>3
  <2>5. \A f \in Followers \ {uid} : Registered(f)' = Registered(f)
    BY <1>0, AddDeviceStep DEF Registered
  <2> QED BY <2>4, <2>5 DEF Inv, Types
<1>6. Types'
  BY <1>5, AddDeviceStep DEF Inv, Types, AddDevice
<1>7. CASE Len(message.todo) = 1
  BY <1>6, <1>7 DEF AddDevice, Inv, Busy
<1>8. CASE Len(message.todo) # 1
  <2>1. message.todo \in Seq(Entry) /\ message.todo # <<>>
    BY <1>1 DEF Handling, Message
  <2>2. Tail(message.todo) \in Seq(Entry) /\ Tail(message.todo) # <<>>
    BY <1>8, <2>1, RestOfRequest
  <2>3. message' = [message EXCEPT !.todo = Tail(message.todo),
                      !.added = message.added \cup {d}, !.additions = message.additions + 1]
    BY <1>0, <1>8 DEF AddDevice
  <2>4. /\ message' \in Message /\ message'.todo # <<>> /\ message'.uid = uid
        /\ message'.existing = message.existing /\ message'.added = message.added \cup {d}
        /\ message'.additions = message.additions + 1
    <3>1. message.added \cup {d} \in SUBSET Devices /\ message.additions + 1 \in Nat
      BY <1>1 DEF Handling, Message
    <3> QED BY <1>0, <1>1, <2>2, <2>3, <3>1 DEF Handling, Message
  <2>5. Seen' = Seen \cup {d}
    BY <2>4 DEF Seen
  <2>6. Counted' = Counted + 1
    <3>1. Cardinality(message.existing) \in Nat /\ message.additions \in Nat
      BY <1>1, Subsets DEF Handling, Message
    <3> QED BY <2>4, <3>1 DEF Counted
  <2>7. Registered(message.uid)' \subseteq Seen'
    BY <1>0, <1>1, <1>2, <2>4, <2>5 DEF Handling, Registered
  <2> QED BY <1>4, <1>6, <2>4, <2>5, <2>6, <2>7 DEF Inv, Handling, Tally
<1> QED BY <1>7, <1>8

(* Approvals and removals register nothing. *)
LEMMA OwnerStep ==
  ASSUME Inv, NEW f \in Followers, NEW ds \in Named, Approve(f, ds) \/ Remove(f, ds)
  PROVE  /\ rows' \in [Followers -> [Devices -> Row \cup {NoRow}]]
         /\ \A g \in Followers : Registered(g)' \subseteq Registered(g)
         /\ \A g \in Followers, d \in Devices :
              rows'[g][d] \in {NoRow, rows[g][d]} \/ rows'[g][d] = [rows[g][d] EXCEPT !.allowed = "Allowed"]
         /\ UNCHANGED message /\ requests' \in Nat
<1>1. rows \in [Followers -> [Devices -> Row \cup {NoRow}]]
  BY DEF Inv, Types
<1>2. UNCHANGED message /\ requests' \in Nat
  BY DEF Approve, Remove, Count, Inv, Types
<1>3. CASE Approve(f, ds)
  <2>1. rows' = [rows EXCEPT ![f] = [d \in Devices |->
                   IF d \in ds \cap Registered(f) THEN [rows[f][d] EXCEPT !.allowed = "Allowed"] ELSE rows[f][d]]]
    BY <1>3 DEF Approve
  <2>2. \A d \in Registered(f) : rows[f][d] \in Row /\ d \in Devices
    BY <1>1 DEF Registered
  <2>3. \A d \in Registered(f) : [rows[f][d] EXCEPT !.allowed = "Allowed"] \in Row
    BY <2>2 DEF Row
  <2> QED BY <1>1, <1>2, <2>1, <2>2, <2>3 DEF Registered
<1>4. CASE Remove(f, ds)
  BY <1>1, <1>2, <1>4 DEF Remove, Registered
<1> QED BY <1>3, <1>4

LEMMA OwnerInv ==
  ASSUME Inv, NEW f \in Followers, NEW ds \in Named, Approve(f, ds) \/ Remove(f, ds)
  PROVE  Inv'
BY OwnerStep, FewerRows DEF Inv, Types

LEMMA NextInv == Inv /\ [Next]_vars => Inv'
<1> SUFFICES ASSUME Inv, [Next]_vars PROVE Inv'
  OBVIOUS
<1>1. CASE UNCHANGED vars
  <2>1. \A f \in Followers : Registered(f)' \subseteq Registered(f)
    BY <1>1 DEF vars, Registered
  <2> QED BY <1>1, <2>1, FewerRows DEF Inv, Types, vars
<1>2. CASE Refuse \/ AlreadyKnown \/ TooMany \/ AddDevice
  BY <1>2, DoneInv, SkipInv, AddDeviceInv DEF Refuse, AlreadyKnown, TooMany
<1> QED BY <1>1, <1>2, FollowRequestInv, OwnerInv DEF Next

(* However requests, approvals and removals interleave, the rows keep their *)
(* types and no follower has more devices than the limit                    *)
(* (inbox.py, MAX_DEVICES_PER_FOLLOWER).                                    *)
THEOREM DevicesLimited == Spec => []TypeOK
<1>1. Inv => TypeOK
  BY DEF Inv, Types, TypeOK, Busy, Handling
<1> QED BY InitInv, NextInv, <1>1, PTL DEF Spec

(* Only the request that registered a device writes its row again, and the *)
(* owner's approval. *)
LEMMA KeptByStep ==
  ASSUME Inv, [Next]_vars, NEW f \in Followers, NEW d \in Devices,
         rows[f][d] # NoRow, rows'[f][d] \notin {NoRow, rows[f][d]}
  PROVE  \/ Busy /\ message.uid = f /\ d \in message.added
         \/ /\ rows'[f][d] = [rows[f][d] EXCEPT !.allowed = "Allowed"]
            /\ UNCHANGED message
<1>1. CASE AddDevice
  <2>1. f = message.uid /\ d = NextEntry.device
    BY <1>1, AddDeviceStep
  <2>2. d \in Registered(f) /\ Registered(f) \subseteq Seen
    BY <1>1, <2>1, AddDeviceStep DEF Handling, Registered
  <2> QED BY <1>1, <2>1, <2>2, AddDeviceStep DEF Seen, AddDevice
<1>2. CASE \E g \in Followers, ds \in Named : Approve(g, ds) \/ Remove(g, ds)
  BY <1>2, OwnerStep
<1>3. CASE UNCHANGED rows
  BY <1>3
<1>4. CASE UNCHANGED vars
  BY <1>3, <1>4 DEF vars
<1>5. CASE \E g \in Followers, entries \in Entries : FollowRequest(g, entries)
  BY <1>3, <1>5 DEF FollowRequest
<1>6. CASE Refuse \/ AlreadyKnown \/ TooMany
  BY <1>3, <1>6 DEF Refuse, AlreadyKnown, TooMany
<1> QED BY <1>1, <1>2, <1>4, <1>5, <1>6 DEF Next

(* A registered device keeps key and approval until the owner removes it,   *)
(* unless the request that registered it names it again (inbox.py, the skip *)
(* of devices already on file).                                             *)
THEOREM RegistrationKept == Spec => RegisteredUntouched
<1>1. Inv /\ [Next]_vars =>
        [\A f \in Followers, d \in Devices :
           /\ rows[f][d] # NoRow /\ rows'[f][d] \notin {NoRow, rows[f][d]}
           => \/ Busy /\ message.uid = f /\ d \in message.added
              \/ /\ rows'[f][d] = [rows[f][d] EXCEPT !.allowed = "Allowed"]
                 /\ UNCHANGED message]_vars
  BY KeptByStep
<1> QED BY InitInv, NextInv, <1>1, PTL DEF Spec, RegisteredUntouched
=============================================================================
