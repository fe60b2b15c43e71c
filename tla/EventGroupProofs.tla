-------------------------- MODULE EventGroupProofs --------------------------
(***************************************************************************)
(* Proofs about CEvent and CEventGroup for any events, groups and threads. *)
(*                                                                         *)
(* One inductive invariant, IInv, carries them.  That no wakeup of a group *)
(* is missed rests on what a wait() in progress may rely on while the      *)
(* group's flag is clear (FlagInv), which in turn rests on the list of     *)
(* every event having the groups that are live (ListInv) and on who holds  *)
(* which lock (LockInv).                                                   *)
(***************************************************************************)
EXTENDS EventGroup, FiniteSetTheorems, SequenceTheorems, TLAPS

OnEvent  == {"notify", "list", "tell", "asleep", "woken"}
OnGroup  == {"scan", "gasleep", "gwoken", "build", "destroy"}
Counted  == {"asleep", "woken"}              \* in CEvent::numWaits
GCounted == {"scan", "gasleep", "gwoken"}    \* in CEventGroup::numWaits

TypeInv ==
  /\ signaled \in [Event -> BOOLEAN]
  /\ waits \in [Event -> Nat]
  /\ groups \in [Event -> Seq(Group)]
  /\ listOwner \in [Event -> Thread \cup {NULL}]
  /\ gstate \in [Group -> {"none", "building", "live", "dying"}]
  /\ gsignaled \in [Group -> Event \cup {NULL}]
  /\ gwaits \in [Group -> Nat]
  /\ gOwner \in [Group -> Thread \cup {NULL}]
  /\ pc \in [Thread -> ThreadStates]
  /\ on \in [Thread -> Event \cup Group \cup {NULL}]
  /\ todo \in [Thread -> Seq(Event) \cup Seq(Group)]

(* Where a thread is says who it is and what kind of object it is in.      *)
PlaceInv ==
  \A t \in Thread :
    /\ pc[t] \in OnEvent => on[t] \in Event
    /\ pc[t] \in OnGroup => on[t] \in Group /\ t \in GroupWaiter
    /\ pc[t] \in {"notify", "list", "tell"} => t \in Setter
    /\ pc[t] \in Counted => t \in Waiter
    /\ pc[t] \in {"scan", "build", "destroy"} => todo[t] \in Seq(Event)
    /\ pc[t] = "tell" => todo[t] \in Seq(Group)

(* The two locks that are held across steps.                               *)
LockInv ==
  \A t \in Thread :
    /\ pc[t] = "tell" => listOwner[on[t]] = t
    /\ pc[t] = "scan" => gOwner[on[t]] = t

(* numWaits of events and of groups.                                       *)
WaitersOf(e) == {t \in Waiter : pc[t] \in Counted /\ on[t] = e}
GroupWaitersOf(g) == {t \in GroupWaiter : pc[t] \in GCounted /\ on[t] = g}
CountInv ==
  /\ \A e \in Event : waits[e] = Cardinality(WaitersOf(e))
  /\ \A g \in Group : gwaits[g] = Cardinality(GroupWaitersOf(g))

(* A group has one thread that builds or destroys it, and no waiter then.  *)
LifeInv ==
  /\ \A t \in Thread :
       /\ pc[t] = "build" => gstate[on[t]] = "building"
       /\ pc[t] = "destroy" => gstate[on[t]] = "dying"
       /\ pc[t] \in GCounted => gstate[on[t]] = "live"
  /\ \A t, u \in Thread :
       pc[t] \in {"build", "destroy"} /\ pc[u] \in {"build", "destroy"} /\ on[t] = on[u] => t = u

(* The lists of groups, and what the loops over events have left to do.    *)
ListedInv ==
  \A e \in Event, g \in Group :
    /\ Contains(groups[e], g) => Contains(Members[g], e) /\ gstate[g] # "none"
    /\ gstate[g] = "live" /\ Contains(Members[g], e) => Contains(groups[e], g)
LoopInv ==
  \A t \in Thread, e \in Event :
    /\ pc[t] \in {"scan", "build", "destroy"} /\ Contains(todo[t], e) => Contains(Members[on[t]], e)
    /\ pc[t] = "build" /\ Contains(Members[on[t]], e) => Contains(todo[t], e) \/ Contains(groups[e], on[t])
    /\ pc[t] = "destroy" /\ Contains(groups[e], on[t]) => Contains(todo[t], e)
TellInv ==
  \A t \in Thread, g \in Group :
    pc[t] = "tell" /\ Contains(todo[t], g) => Contains(groups[on[t]], g)
ListInv == ListedInv /\ LoopInv /\ TellInv

(* While the flag of a group that is waited for is clear, each of its      *)
(* events that is signaled is still to be looked at by the thread that     *)
(* goes through them, or a Set() is on its way to the group.               *)
ToBeScanned(g, e) == \E u \in Thread : pc[u] = "scan" /\ on[u] = g /\ Contains(todo[u], e)
FlagInv ==
  \A t \in Thread :
    pc[t] \in GCounted /\ gsignaled[on[t]] = NULL =>
      \A e \in Event : Contains(Members[on[t]], e) /\ signaled[e] =>
        ToBeTold(on[t], e) \/ ToBeScanned(on[t], e)

IInv ==
  /\ TypeInv /\ PlaceInv /\ LockInv /\ CountInv /\ LifeInv /\ ListInv
  /\ FlagInv /\ NoMissedWakeup /\ NoMissedGroupWakeup
-----------------------------------------------------------------------------
(* Sequences as lists of members.                                          *)

(* Nothing is in the empty list.                                           *)
LEMMA ContainsNothing == \A x : ~Contains(<<>>, x)
BY SMT DEF Contains

(* A loop takes the head, and nothing else, out of what is left to do.     *)
LEMMA ContainsTail ==
  ASSUME NEW S, NEW s \in Seq(S), s # <<>>
  PROVE  /\ Head(s) \in S /\ Tail(s) \in Seq(S)
         /\ \A x : Contains(s, x) <=> x = Head(s) \/ Contains(Tail(s), x)
<1>1. /\ Len(s) \in Nat /\ Len(s) # 0 /\ Head(s) = s[1] /\ s[1] \in S
      /\ Tail(s) \in Seq(S) /\ Len(Tail(s)) = Len(s) - 1
      /\ \A i \in 1 .. Len(s) - 1 : Tail(s)[i] = s[i + 1]
  BY EmptySeq, SMT
<1>2. ASSUME NEW x, Contains(s, x) PROVE x = Head(s) \/ Contains(Tail(s), x)
  <2>1. PICK i \in 1 .. Len(s) : s[i] = x
    BY <1>2 DEF Contains
  <2>2. CASE i = 1
    BY <2>1, <2>2, <1>1
  <2>3. CASE i # 1
    <3>1. i - 1 \in 1 .. Len(s) - 1 /\ (i - 1) + 1 = i
      BY <2>3, <1>1, SMT
    <3>2. Tail(s)[i - 1] = x /\ i - 1 \in 1 .. Len(Tail(s))
      BY <3>1, <2>1, <1>1
    <3> QED BY <3>2 DEF Contains
  <2> QED BY <2>2, <2>3
<1>3. ASSUME NEW x, x = Head(s) PROVE Contains(s, x)
  <2>1. 1 \in 1 .. Len(s) /\ s[1] = x
    BY <1>3, <1>1, SMT
  <2> QED BY <2>1 DEF Contains
<1>4. ASSUME NEW x, Contains(Tail(s), x) PROVE Contains(s, x)
  <2>1. PICK i \in 1 .. Len(s) - 1 : Tail(s)[i] = x
    BY <1>4, <1>1 DEF Contains
  <2>2. i + 1 \in 1 .. Len(s) /\ s[i + 1] = x
    BY <2>1, <1>1, SMT
  <2> QED BY <2>2 DEF Contains
<1> QED BY <1>1, <1>2, <1>3, <1>4

(* Appending adds one member.                                              *)
LEMMA ContainsAppend ==
  ASSUME NEW S, NEW s \in Seq(S), NEW y \in S
  PROVE  /\ Append(s, y) \in Seq(S)
         /\ \A x : Contains(Append(s, y), x) <=> Contains(s, x) \/ x = y
<1>1. /\ Len(s) \in Nat /\ Append(s, y) \in Seq(S) /\ Len(Append(s, y)) = Len(s) + 1
      /\ \A i \in 1 .. Len(s) : Append(s, y)[i] = s[i]
      /\ Append(s, y)[Len(s) + 1] = y
  BY SMT
<1>2. 1 .. Len(s) + 1 = (1 .. Len(s)) \cup {Len(s) + 1}
  BY <1>1, SMT
<1> QED BY <1>1, <1>2 DEF Contains

(* std::remove takes out every occurrence of x and nothing else.           *)
LEMMA ContainsWithout ==
  ASSUME NEW S, NEW s \in Seq(S), NEW x
  PROVE  /\ Without(s, x) \in Seq(S)
         /\ \A y : Contains(Without(s, x), y) <=> Contains(s, y) /\ y # x
<1> DEFINE Kept == {i \in DOMAIN s : s[i] # x}
           UpTo(i) == {j \in Kept : j <= i}
           Rank(i) == Cardinality(UpTo(i))
           n == Cardinality(Kept)
           r == [i \in Kept |-> Rank(i)]
           At(k) == CHOOSE i \in Kept : Rank(i) = k
           w == [k \in 1 .. n |-> s[At(k)]]
<1>1. Len(s) \in Nat /\ DOMAIN s = 1 .. Len(s) /\ \A i \in 1 .. Len(s) : s[i] \in S
  BY SMT
<1>2. IsFiniteSet(Kept) /\ n \in Nat
  <2>1. IsFiniteSet(1 .. Len(s)) /\ Kept \in SUBSET (1 .. Len(s))
    BY <1>1, FS_Interval
  <2> QED BY <2>1, FS_Subset, FS_CardinalityType
<1>3. \A i \in Kept : i \in Nat
  BY <1>1, SMT
<1>4. ASSUME NEW i \in Kept PROVE Rank(i) \in 1 .. n /\ IsFiniteSet(UpTo(i)) /\ Rank(i) \in Nat
  <2>1. UpTo(i) \in SUBSET Kept /\ i \in UpTo(i)
    BY <1>3, SMT
  <2>2. IsFiniteSet(UpTo(i)) /\ Rank(i) <= n
    BY <2>1, <1>2, FS_Subset
  <2>3. Rank(i) \in Nat /\ Rank(i) # 0
    BY <2>1, <2>2, FS_CardinalityType, FS_EmptySet
  <2> HIDE DEF Rank, n, UpTo
  <2> QED BY <2>2, <2>3, <1>2, SMT
<1>5. ASSUME NEW i \in Kept, NEW j \in Kept, i < j PROVE Rank(i) < Rank(j)
  <2>1. UpTo(i) \in SUBSET UpTo(j) /\ j \in UpTo(j) /\ j \notin UpTo(i)
    BY <1>5, <1>3, SMT
  <2>2. Rank(i) <= Rank(j) /\ Rank(i) # Rank(j)
    BY <2>1, <1>4, FS_Subset
  <2>3. Rank(i) \in Nat /\ Rank(j) \in Nat
    BY <1>4
  <2> HIDE DEF Rank
  <2> QED BY <2>2, <2>3, SMT
<1>6. r \in Injection(Kept, 1 .. n)
  <2>1. r \in [Kept -> 1 .. n]
    BY <1>4
  <2>2. ASSUME NEW i \in Kept, NEW j \in Kept, Rank(i) = Rank(j) PROVE i = j
    <3>1. ~(i < j) /\ ~(j < i)
      <4>1. Rank(i) \in Nat
        BY <1>4
      <4> HIDE DEF Rank
      <4>2. ~(Rank(i) < Rank(j)) /\ ~(Rank(j) < Rank(i))
        BY <4>1, <2>2, SMT
      <4> QED BY <4>2, <1>5
    <3> HIDE DEF Kept
    <3> QED BY <3>1, <1>3, SMT
  <2>3. \A i, j \in Kept : r[i] = r[j] => i = j
    BY <2>2
  <2> QED BY <2>1, <2>3 DEF Injection, IsInjective
<1>7. r \in Surjection(Kept, 1 .. n)
  <2>1. IsFiniteSet(1 .. n) /\ Cardinality(1 .. n) = n
    <3> HIDE DEF n
    <3>1. 1 \in Int /\ n \in Int /\ (IF 1 > n THEN 0 ELSE n - 1 + 1) = n
      BY <1>2, SMT
    <3> QED BY <3>1, FS_Interval
  <2> HIDE DEF r
  <2> QED BY <2>1, <1>2, <1>6, FS_Injection
<1>8. \A k \in 1 .. n : \E i \in Kept : Rank(i) = k
  BY <1>7 DEF Surjection
<1>9. \A i, j \in Kept : Rank(i) = Rank(j) => i = j
  BY <1>6 DEF Injection, IsInjective
<1> HIDE DEF Rank
<1>10. \A k \in 1 .. n : At(k) \in Kept
  BY <1>8
<1>11. \A i \in Kept : Rank(i) \in 1 .. n /\ At(Rank(i)) = i
  BY <1>4, <1>9
<1>12. Without(s, x) = w
  BY DEF Without, Rank, n
<1> HIDE DEF n, At
<1>13. w \in Seq(S) /\ Len(w) = n
  <2>1. \A k \in 1 .. n : s[At(k)] \in S
    BY <1>1, <1>10
  <2>2. w \in [1 .. n -> S]
    BY <2>1
  <2> HIDE DEF w
  <2> QED BY <2>2, <1>2, SMT
<1>14. \A k \in 1 .. n : Contains(s, w[k]) /\ w[k] # x
  <2> SUFFICES ASSUME NEW k \in 1 .. n PROVE Contains(s, w[k]) /\ w[k] # x
    OBVIOUS
  <2>1. At(k) \in 1 .. Len(s) /\ s[At(k)] # x /\ w[k] = s[At(k)]
    BY <1>1, <1>10
  <2> QED BY <2>1 DEF Contains
<1>15. \A i \in Kept : w[Rank(i)] = s[i]
  BY <1>11
<1>16. ASSUME NEW y PROVE Contains(w, y) <=> Contains(s, y) /\ y # x
  <2>1. ASSUME Contains(w, y) PROVE Contains(s, y) /\ y # x
    BY <2>1, <1>13, <1>14 DEF Contains
  <2>2. ASSUME Contains(s, y), y # x PROVE Contains(w, y)
    <3>1. PICK i \in 1 .. Len(s) : s[i] = y
      BY <2>2 DEF Contains
    <3>2. i \in Kept
      BY <3>1, <2>2, <1>1
    <3> HIDE DEF Kept, w
    <3> QED BY <3>1, <3>2, <1>11, <1>13, <1>15 DEF Contains
  <2> QED BY <2>1, <2>2
<1> HIDE DEF w
<1> QED BY <1>13, <1>16, <1>12

-----------------------------------------------------------------------------
(* The sets of waiting threads.                                            *)

(* There are finitely many waiters of anything, so they can be counted.    *)
LEMMA WaitersFinite ==
  /\ \A e \in Event : IsFiniteSet(WaitersOf(e)) /\ Cardinality(WaitersOf(e)) \in 0 .. Cardinality(Waiter)
  /\ \A g \in Group : IsFiniteSet(GroupWaitersOf(g))
                      /\ Cardinality(GroupWaitersOf(g)) \in 0 .. Cardinality(GroupWaiter)
<1>1. ASSUME NEW W, IsFiniteSet(W), NEW A \in SUBSET W
      PROVE  IsFiniteSet(A) /\ Cardinality(A) \in 0 .. Cardinality(W)
  <2>1. IsFiniteSet(A) /\ Cardinality(A) <= Cardinality(W)
    BY <1>1, FS_Subset
  <2>2. Cardinality(A) \in Nat /\ Cardinality(W) \in Nat
    BY <1>1, <2>1, FS_CardinalityType
  <2> QED BY <2>1, <2>2, SMT
<1>2. \A e \in Event : WaitersOf(e) \in SUBSET Waiter
  BY DEF WaitersOf
<1>3. \A g \in Group : GroupWaitersOf(g) \in SUBSET GroupWaiter
  BY DEF GroupWaitersOf
<1> QED BY <1>1, <1>2, <1>3, EventAssumption DEF EventAssumption

(* Whoever is in the condition variable of an event or in the wait() of a  *)
(* group is counted there.                                                 *)
LEMMA WaiterIsCounted ==
  ASSUME PlaceInv, CountInv, NEW t \in Thread
  PROVE  /\ pc[t] \in Counted => waits[on[t]] - 1 \in Nat
         /\ pc[t] \in GCounted => gwaits[on[t]] - 1 \in Nat
<1>1. ASSUME pc[t] \in Counted PROVE waits[on[t]] - 1 \in Nat
  <2>1. on[t] \in Event /\ t \in WaitersOf(on[t])
    BY <1>1 DEF PlaceInv, OnEvent, Counted, WaitersOf
  <2>2. Cardinality(WaitersOf(on[t])) \in Nat /\ Cardinality(WaitersOf(on[t])) # 0
    BY <2>1, WaitersFinite, FS_EmptySet, FS_CardinalityType
  <2>3. waits[on[t]] \in Nat /\ waits[on[t]] # 0
    BY <2>1, <2>2 DEF CountInv
  <2> QED BY <2>3, SMT
<1>2. ASSUME pc[t] \in GCounted PROVE gwaits[on[t]] - 1 \in Nat
  <2>1. on[t] \in Group /\ t \in GroupWaitersOf(on[t])
    BY <1>2 DEF PlaceInv, OnGroup, GCounted, GroupWaitersOf
  <2>2. Cardinality(GroupWaitersOf(on[t])) \in Nat /\ Cardinality(GroupWaitersOf(on[t])) # 0
    BY <2>1, WaitersFinite, FS_EmptySet, FS_CardinalityType
  <2>3. gwaits[on[t]] \in Nat /\ gwaits[on[t]] # 0
    BY <2>1, <2>2 DEF CountInv
  <2> QED BY <2>3, SMT
<1> QED BY <1>1, <1>2

(* A group with nobody counted has nobody in its wait().                   *)
LEMMA NobodyIsCounted ==
  ASSUME PlaceInv, CountInv, NEW g \in Group, gwaits[g] = 0
  PROVE  \A t \in Thread : pc[t] \in GCounted => on[t] # g
<1> SUFFICES ASSUME NEW t \in Thread, pc[t] \in GCounted, on[t] = g PROVE FALSE
  OBVIOUS
<1>1. gwaits[g] - 1 \in Nat
  BY WaiterIsCounted
<1> QED BY <1>1, SMT

(* And a thread that is counted alone is there alone.                      *)
LEMMA CountedAlone ==
  ASSUME PlaceInv, CountInv, NEW t \in Thread, pc[t] \in GCounted, gwaits[on[t]] = 1
  PROVE  \A u \in Thread : pc[u] \in GCounted /\ on[u] = on[t] => u = t
<1>1. on[t] \in Group /\ \A u \in Thread : pc[u] \in GCounted => u \in GroupWaiter
  BY DEF PlaceInv, OnGroup, GCounted
<1>2. IsFiniteSet(GroupWaitersOf(on[t])) /\ Cardinality(GroupWaitersOf(on[t])) = 1
  BY <1>1, WaitersFinite DEF CountInv
<1>3. PICK x : GroupWaitersOf(on[t]) = {x}
  BY <1>2, FS_Singleton
<1> QED BY <1>1, <1>3 DEF GroupWaitersOf

(* The counts stand if the same threads are in the same waits.             *)
LEMMA CountKept ==
  ASSUME CountInv, waits' = waits, gwaits' = gwaits,
         \A u \in Thread :
           /\ pc[u] \in Counted \/ pc'[u] \in Counted =>
                pc[u] \in Counted /\ pc'[u] \in Counted /\ on'[u] = on[u]
           /\ pc[u] \in GCounted \/ pc'[u] \in GCounted =>
                pc[u] \in GCounted /\ pc'[u] \in GCounted /\ on'[u] = on[u]
  PROVE  CountInv'
<1>1. \A e \in Event : WaitersOf(e)' = WaitersOf(e)
  BY DEF WaitersOf, Thread
<1>2. \A g \in Group : GroupWaitersOf(g)' = GroupWaitersOf(g)
  BY DEF GroupWaitersOf, Thread
<1> QED BY <1>1, <1>2 DEF CountInv

(* They stand if one thread enters or leaves a wait and is counted.        *)
LEMMA CountChanged ==
  ASSUME CountInv, NEW t \in Thread,
         \A u \in Thread \ {t} : pc'[u] = pc[u] /\ on'[u] = on[u],
         \A e \in Event : waits'[e] = waits[e] + (IF t \in WaitersOf(e)' THEN 1 ELSE 0)
                                              - (IF t \in WaitersOf(e) THEN 1 ELSE 0),
         \A g \in Group : gwaits'[g] = gwaits[g] + (IF t \in GroupWaitersOf(g)' THEN 1 ELSE 0)
                                                 - (IF t \in GroupWaitersOf(g) THEN 1 ELSE 0)
  PROVE  CountInv'
<1>1. ASSUME NEW A, NEW B, IsFiniteSet(A), A \ {t} = B \ {t}
      PROVE  Cardinality(B) = Cardinality(A) + (IF t \in B THEN 1 ELSE 0) - (IF t \in A THEN 1 ELSE 0)
  <2>1. B = (A \ {t}) \cup (IF t \in B THEN {t} ELSE {})
    BY <1>1
  <2>2. /\ IsFiniteSet(A \ {t})
        /\ Cardinality(A \ {t}) = Cardinality(A) - (IF t \in A THEN 1 ELSE 0)
        /\ Cardinality(A) \in Nat /\ Cardinality(A \ {t}) \in Nat
    BY <1>1, FS_RemoveElement, FS_CardinalityType
  <2>3. Cardinality(B) = Cardinality(A \ {t}) + (IF t \in B THEN 1 ELSE 0)
    <3>1. CASE t \in B
      <4>1. B = (A \ {t}) \cup {t} /\ t \notin A \ {t}
        BY <2>1, <3>1
      <4> QED BY <4>1, <3>1, <2>2, FS_AddElement
    <3>2. CASE t \notin B
      <4>1. B = A \ {t}
        BY <2>1, <3>2
      <4> QED BY <4>1, <3>2, <2>2
    <3> QED BY <3>1, <3>2
  <2> QED BY <2>2, <2>3
<1>2. ASSUME NEW e \in Event PROVE waits'[e] = Cardinality(WaitersOf(e)')
  <2>1. WaitersOf(e) \ {t} = WaitersOf(e)' \ {t}
    BY DEF WaitersOf, Thread
  <2> QED BY <2>1, <1>1, WaitersFinite DEF CountInv
<1>3. ASSUME NEW g \in Group PROVE gwaits'[g] = Cardinality(GroupWaitersOf(g)')
  <2>1. GroupWaitersOf(g) \ {t} = GroupWaitersOf(g)' \ {t}
    BY DEF GroupWaitersOf, Thread
  <2> QED BY <2>1, <1>1, WaitersFinite DEF CountInv
<1> QED BY <1>2, <1>3 DEF CountInv

-----------------------------------------------------------------------------
(* Each part of the invariant is kept by every step.                       *)

(* The types of the variables; what a loop over a list has left keeps the  *)
(* type of the list.                                                       *)
LEMMA TypeStep ==
  ASSUME IInv, [Next]_vars
  PROVE  TypeInv'
<1> USE EventAssumption DEF EventAssumption, IInv, TypeInv, PlaceInv, OnEvent, OnGroup, Counted, GCounted,
      Enter, Goto, ThreadStates, eventVars, groupVars, threadVars, Thread, LeftBy
<1>1. ASSUME NEW t \in Thread, NEW e \in Event, SetFlag(t, e) PROVE TypeInv'
  BY <1>1 DEF SetFlag
<1>2. ASSUME NEW t \in Thread, NEW e \in Event, WaitSignaled(t, e) PROVE TypeInv'
  BY <1>2 DEF WaitSignaled
<1>3. ASSUME NEW t \in Thread, NEW e \in Event, WaitSleep(t, e) PROVE TypeInv'
  BY <1>3 DEF WaitSleep
<1>4. ASSUME NEW t \in Thread, NEW g \in Group, Construct(t, g) PROVE TypeInv'
  BY <1>4 DEF Construct
<1>5. ASSUME NEW t \in Thread, NEW g \in Group, Destroy(t, g) PROVE TypeInv'
  BY <1>5 DEF Destroy
<1>6. ASSUME NEW t \in Thread, NEW g \in Group, GroupWait(t, g) PROVE TypeInv'
  BY <1>6 DEF GroupWait
<1>7. ASSUME NEW t \in Thread, Stir(t) PROVE TypeInv'
  <2>1. on' = on /\ UNCHANGED <<eventVars, groupVars, todo>>
    BY <1>7 DEF Stir
  <2>2. \E s \in {"woken", "gwoken"} : pc' = [pc EXCEPT ![t] = s]
    BY <1>7 DEF Stir
  <2>3. pc' \in [Thread -> ThreadStates]
    BY <2>2
  <2> QED BY <2>1, <2>3
<1>8. ASSUME NEW t \in Thread, WaitTimeOut(t) PROVE TypeInv'
  <2>1. waits[on[t]] - 1 \in Nat
    BY <1>8, WaiterIsCounted DEF WaitTimeOut
  <2> QED BY <1>8, <2>1 DEF WaitTimeOut
<1>9. ASSUME NEW t \in Thread, GroupTimeOut(t) PROVE TypeInv'
  <2>1. gwaits[on[t]] - 1 \in Nat
    BY <1>9, WaiterIsCounted DEF GroupTimeOut
  <2> QED BY <1>9, <2>1 DEF GroupTimeOut, GroupLeave
<1>10. ASSUME NEW t \in Thread, Notify(t) PROVE TypeInv'
  BY <1>10 DEF Notify
<1>11. ASSUME NEW t \in Thread, LockList(t) PROVE TypeInv'
  BY <1>11 DEF LockList
<1>12. ASSUME NEW t \in Thread, TellGroup(t) PROVE TypeInv'
  <2>1. Head(todo[t]) \in Group /\ Tail(todo[t]) \in Seq(Group)
    BY <1>12, ContainsTail DEF TellGroup
  <2> QED BY <1>12, <2>1 DEF TellGroup
<1>13. ASSUME NEW t \in Thread, SetReturn(t) PROVE TypeInv'
  BY <1>13 DEF SetReturn
<1>14. ASSUME NEW t \in Thread, WaitReturn(t) PROVE TypeInv'
  <2>1. waits[on[t]] - 1 \in Nat
    BY <1>14, WaiterIsCounted DEF WaitReturn
  <2> QED BY <1>14, <2>1 DEF WaitReturn
<1>15. ASSUME NEW t \in Thread, WaitAgain(t) PROVE TypeInv'
  BY <1>15 DEF WaitAgain
<1>16. ASSUME NEW t \in Thread, AddGroup(t) PROVE TypeInv'
  <2>1. Head(todo[t]) \in Event /\ Tail(todo[t]) \in Seq(Event)
    BY <1>16, ContainsTail DEF AddGroup
  <2>2. Append(groups[Head(todo[t])], on[t]) \in Seq(Group)
    BY <1>16, <2>1, ContainsAppend DEF AddGroup
  <2> QED BY <1>16, <2>1, <2>2 DEF AddGroup
<1>17. ASSUME NEW t \in Thread, Constructed(t) PROVE TypeInv'
  BY <1>17 DEF Constructed
<1>18. ASSUME NEW t \in Thread, RemoveGroup(t) PROVE TypeInv'
  <2>1. Head(todo[t]) \in Event /\ Tail(todo[t]) \in Seq(Event)
    BY <1>18, ContainsTail DEF RemoveGroup
  <2>2. Without(groups[Head(todo[t])], on[t]) \in Seq(Group)
    BY <1>18, <2>1, ContainsWithout DEF RemoveGroup
  <2> QED BY <1>18, <2>1, <2>2 DEF RemoveGroup
<1>19. ASSUME NEW t \in Thread, Destroyed(t) PROVE TypeInv'
  BY <1>19 DEF Destroyed
<1>20. ASSUME NEW t \in Thread, ScanEvent(t) PROVE TypeInv'
  <2>1. Head(todo[t]) \in Event /\ Tail(todo[t]) \in Seq(Event)
    BY <1>20, ContainsTail DEF ScanEvent
  <2> QED BY <1>20, <2>1 DEF ScanEvent
<1>21. ASSUME NEW t \in Thread, GroupSleep(t) PROVE TypeInv'
  BY <1>21 DEF GroupSleep
<1>22. ASSUME NEW t \in Thread, GroupAgain(t) PROVE TypeInv'
  BY <1>22 DEF GroupAgain
<1>23. ASSUME NEW t \in Thread, GroupFound(t) PROVE TypeInv'
  <2>1. gwaits[on[t]] - 1 \in Nat
    BY <1>23, WaiterIsCounted DEF GroupFound
  <2> QED BY <1>23, <2>1 DEF GroupFound, GroupLeave
<1>24. ASSUME NEW t \in Thread, GroupTold(t) PROVE TypeInv'
  <2>1. gwaits[on[t]] - 1 \in Nat
    BY <1>24, WaiterIsCounted DEF GroupTold
  <2> QED BY <1>24, <2>1 DEF GroupTold, GroupLeave
<1>25. ASSUME NEW e \in Event, Reset(e) PROVE TypeInv'
  BY <1>25 DEF Reset
<1>26. CASE UNCHANGED vars
  BY <1>26 DEF vars, eventVars, groupVars, threadVars
<1> QED BY <1>1, <1>2, <1>3, <1>4, <1>5, <1>6, <1>7, <1>8, <1>9, <1>10, <1>11, <1>12, <1>13, <1>14, <1>15, <1>16, <1>17, <1>18, <1>19, <1>20, <1>21, <1>22, <1>23, <1>24, <1>25, <1>26 DEF Next, Progress

(* Nobody gets into an object, a loop or a wait that is not for him.       *)
LEMMA PlaceStep ==
  ASSUME IInv, [Next]_vars
  PROVE  PlaceInv'
<1> USE EventAssumption DEF EventAssumption, IInv, TypeInv, PlaceInv, OnEvent, OnGroup, Counted, GCounted,
      Enter, Goto, ThreadStates, eventVars, groupVars, threadVars, Thread, LeftBy
<1>1. ASSUME NEW t \in Thread, NEW e \in Event, SetFlag(t, e) PROVE PlaceInv'
  BY <1>1 DEF SetFlag
<1>2. ASSUME NEW t \in Thread, NEW e \in Event, WaitSignaled(t, e) PROVE PlaceInv'
  BY <1>2 DEF WaitSignaled
<1>3. ASSUME NEW t \in Thread, NEW e \in Event, WaitSleep(t, e) PROVE PlaceInv'
  BY <1>3 DEF WaitSleep
<1>4. ASSUME NEW t \in Thread, NEW g \in Group, Construct(t, g) PROVE PlaceInv'
  BY <1>4 DEF Construct
<1>5. ASSUME NEW t \in Thread, NEW g \in Group, Destroy(t, g) PROVE PlaceInv'
  BY <1>5 DEF Destroy
<1>6. ASSUME NEW t \in Thread, NEW g \in Group, GroupWait(t, g) PROVE PlaceInv'
  BY <1>6 DEF GroupWait
<1>7. ASSUME NEW t \in Thread, Stir(t) PROVE PlaceInv'
  BY <1>7 DEF Stir
<1>8. ASSUME NEW t \in Thread, WaitTimeOut(t) PROVE PlaceInv'
  BY <1>8 DEF WaitTimeOut
<1>9. ASSUME NEW t \in Thread, GroupTimeOut(t) PROVE PlaceInv'
  BY <1>9 DEF GroupTimeOut, GroupLeave
<1>10. ASSUME NEW t \in Thread, Notify(t) PROVE PlaceInv'
  BY <1>10 DEF Notify
<1>11. ASSUME NEW t \in Thread, LockList(t) PROVE PlaceInv'
  BY <1>11 DEF LockList
<1>12. ASSUME NEW t \in Thread, TellGroup(t) PROVE PlaceInv'
  <2>1. Head(todo[t]) \in Group /\ Tail(todo[t]) \in Seq(Group)
    BY <1>12, ContainsTail DEF TellGroup
  <2> QED BY <1>12, <2>1 DEF TellGroup
<1>13. ASSUME NEW t \in Thread, SetReturn(t) PROVE PlaceInv'
  BY <1>13 DEF SetReturn
<1>14. ASSUME NEW t \in Thread, WaitReturn(t) PROVE PlaceInv'
  BY <1>14 DEF WaitReturn
<1>15. ASSUME NEW t \in Thread, WaitAgain(t) PROVE PlaceInv'
  BY <1>15 DEF WaitAgain
<1>16. ASSUME NEW t \in Thread, AddGroup(t) PROVE PlaceInv'
  BY <1>16 DEF AddGroup
<1>17. ASSUME NEW t \in Thread, Constructed(t) PROVE PlaceInv'
  BY <1>17 DEF Constructed
<1>18. ASSUME NEW t \in Thread, RemoveGroup(t) PROVE PlaceInv'
  BY <1>18 DEF RemoveGroup
<1>19. ASSUME NEW t \in Thread, Destroyed(t) PROVE PlaceInv'
  BY <1>19 DEF Destroyed
<1>20. ASSUME NEW t \in Thread, ScanEvent(t) PROVE PlaceInv'
  BY <1>20 DEF ScanEvent
<1>21. ASSUME NEW t \in Thread, GroupSleep(t) PROVE PlaceInv'
  BY <1>21 DEF GroupSleep
<1>22. ASSUME NEW t \in Thread, GroupAgain(t) PROVE PlaceInv'
  BY <1>22 DEF GroupAgain
<1>23. ASSUME NEW t \in Thread, GroupFound(t) PROVE PlaceInv'
  BY <1>23 DEF GroupFound, GroupLeave
<1>24. ASSUME NEW t \in Thread, GroupTold(t) PROVE PlaceInv'
  BY <1>24 DEF GroupTold, GroupLeave
<1>25. ASSUME NEW e \in Event, Reset(e) PROVE PlaceInv'
  BY <1>25 DEF Reset
<1>26. CASE UNCHANGED vars
  BY <1>26 DEF vars, eventVars, groupVars, threadVars
<1> QED BY <1>1, <1>2, <1>3, <1>4, <1>5, <1>6, <1>7, <1>8, <1>9, <1>10, <1>11, <1>12, <1>13, <1>14, <1>15, <1>16, <1>17, <1>18, <1>19, <1>20, <1>21, <1>22, <1>23, <1>24, <1>25, <1>26 DEF Next, Progress

(* groupListMutex and the group's mutex have one owner, who is in a loop.  *)
LEMMA LockStep ==
  ASSUME IInv, [Next]_vars
  PROVE  LockInv'
<1> USE EventAssumption DEF EventAssumption, IInv, TypeInv, PlaceInv, OnEvent, OnGroup, Counted, GCounted,
      Enter, Goto, ThreadStates, eventVars, groupVars, threadVars, Thread, LeftBy, LockInv
<1>1. ASSUME NEW t \in Thread, NEW e \in Event, SetFlag(t, e) PROVE LockInv'
  BY <1>1 DEF SetFlag
<1>2. ASSUME NEW t \in Thread, NEW e \in Event, WaitSignaled(t, e) PROVE LockInv'
  BY <1>2 DEF WaitSignaled
<1>3. ASSUME NEW t \in Thread, NEW e \in Event, WaitSleep(t, e) PROVE LockInv'
  BY <1>3 DEF WaitSleep
<1>4. ASSUME NEW t \in Thread, NEW g \in Group, Construct(t, g) PROVE LockInv'
  BY <1>4 DEF Construct
<1>5. ASSUME NEW t \in Thread, NEW g \in Group, Destroy(t, g) PROVE LockInv'
  BY <1>5 DEF Destroy
<1>6. ASSUME NEW t \in Thread, NEW g \in Group, GroupWait(t, g) PROVE LockInv'
  BY <1>6 DEF GroupWait
<1>7. ASSUME NEW t \in Thread, Stir(t) PROVE LockInv'
  BY <1>7 DEF Stir
<1>8. ASSUME NEW t \in Thread, WaitTimeOut(t) PROVE LockInv'
  BY <1>8 DEF WaitTimeOut
<1>9. ASSUME NEW t \in Thread, GroupTimeOut(t) PROVE LockInv'
  BY <1>9 DEF GroupTimeOut, GroupLeave
<1>10. ASSUME NEW t \in Thread, Notify(t) PROVE LockInv'
  BY <1>10 DEF Notify
<1>11. ASSUME NEW t \in Thread, LockList(t) PROVE LockInv'
  BY <1>11 DEF LockList
<1>12. ASSUME NEW t \in Thread, TellGroup(t) PROVE LockInv'
  BY <1>12 DEF TellGroup
<1>13. ASSUME NEW t \in Thread, SetReturn(t) PROVE LockInv'
  BY <1>13 DEF SetReturn
<1>14. ASSUME NEW t \in Thread, WaitReturn(t) PROVE LockInv'
  BY <1>14 DEF WaitReturn
<1>15. ASSUME NEW t \in Thread, WaitAgain(t) PROVE LockInv'
  BY <1>15 DEF WaitAgain
<1>16. ASSUME NEW t \in Thread, AddGroup(t) PROVE LockInv'
  BY <1>16 DEF AddGroup
<1>17. ASSUME NEW t \in Thread, Constructed(t) PROVE LockInv'
  BY <1>17 DEF Constructed
<1>18. ASSUME NEW t \in Thread, RemoveGroup(t) PROVE LockInv'
  BY <1>18 DEF RemoveGroup
<1>19. ASSUME NEW t \in Thread, Destroyed(t) PROVE LockInv'
  BY <1>19 DEF Destroyed
<1>20. ASSUME NEW t \in Thread, ScanEvent(t) PROVE LockInv'
  BY <1>20 DEF ScanEvent
<1>21. ASSUME NEW t \in Thread, GroupSleep(t) PROVE LockInv'
  BY <1>21 DEF GroupSleep
<1>22. ASSUME NEW t \in Thread, GroupAgain(t) PROVE LockInv'
  BY <1>22 DEF GroupAgain
<1>23. ASSUME NEW t \in Thread, GroupFound(t) PROVE LockInv'
  BY <1>23 DEF GroupFound, GroupLeave
<1>24. ASSUME NEW t \in Thread, GroupTold(t) PROVE LockInv'
  BY <1>24 DEF GroupTold, GroupLeave
<1>25. ASSUME NEW e \in Event, Reset(e) PROVE LockInv'
  BY <1>25 DEF Reset
<1>26. CASE UNCHANGED vars
  BY <1>26 DEF vars, eventVars, groupVars, threadVars
<1> QED BY <1>1, <1>2, <1>3, <1>4, <1>5, <1>6, <1>7, <1>8, <1>9, <1>10, <1>11, <1>12, <1>13, <1>14, <1>15, <1>16, <1>17, <1>18, <1>19, <1>20, <1>21, <1>22, <1>23, <1>24, <1>25, <1>26 DEF Next, Progress

(* numWaits goes up and down with the threads in the wait.                 *)
LEMMA CountStep ==
  ASSUME IInv, [Next]_vars
  PROVE  CountInv'
<1> USE EventAssumption DEF EventAssumption, IInv, TypeInv, PlaceInv, OnEvent, OnGroup, Counted, GCounted,
      Enter, Goto, ThreadStates, eventVars, groupVars, threadVars, Thread, LeftBy
<1>1. ASSUME NEW t \in Thread, NEW e \in Event, SetFlag(t, e) PROVE CountInv'
  BY <1>1, CountKept DEF SetFlag
<1>2. ASSUME NEW t \in Thread, NEW e \in Event, WaitSignaled(t, e) PROVE CountInv'
  BY <1>2, CountKept DEF WaitSignaled
<1>3. ASSUME NEW t \in Thread, NEW e \in Event, WaitSleep(t, e) PROVE CountInv'
  <2>1. \A u \in Thread \ {t} : pc'[u] = pc[u] /\ on'[u] = on[u]
    BY <1>3 DEF WaitSleep
  <2>2. \A x \in Event : /\ waits'[x] = (IF x = e THEN waits[x] + 1 ELSE waits[x]) /\ waits[x] \in Nat
                         /\ t \notin WaitersOf(x) /\ (t \in WaitersOf(x)' <=> x = e)
    BY <1>3 DEF WaitSleep, WaitersOf
  <2>3. \A x \in Group : gwaits'[x] = gwaits[x] /\ gwaits[x] \in Nat /\ t \notin GroupWaitersOf(x) /\ t \notin GroupWaitersOf(x)'
    BY <1>3 DEF WaitSleep, GroupWaitersOf
  <2>4. \A x \in Event : waits'[x] = waits[x] + (IF t \in WaitersOf(x)' THEN 1 ELSE 0)
                                            - (IF t \in WaitersOf(x) THEN 1 ELSE 0)
    BY ONLY <2>2, SMT
  <2>5. \A x \in Group : gwaits'[x] = gwaits[x] + (IF t \in GroupWaitersOf(x)' THEN 1 ELSE 0)
                                              - (IF t \in GroupWaitersOf(x) THEN 1 ELSE 0)
    BY ONLY <2>3, SMT
  <2> QED BY <2>1, <2>4, <2>5, CountChanged
<1>4. ASSUME NEW t \in Thread, NEW g \in Group, Construct(t, g) PROVE CountInv'
  BY <1>4, CountKept DEF Construct
<1>5. ASSUME NEW t \in Thread, NEW g \in Group, Destroy(t, g) PROVE CountInv'
  BY <1>5, CountKept DEF Destroy
<1>6. ASSUME NEW t \in Thread, NEW g \in Group, GroupWait(t, g) PROVE CountInv'
  <2>1. \A u \in Thread \ {t} : pc'[u] = pc[u] /\ on'[u] = on[u]
    BY <1>6 DEF GroupWait
  <2>2. \A x \in Event : waits'[x] = waits[x] /\ waits[x] \in Nat /\ t \notin WaitersOf(x) /\ t \notin WaitersOf(x)'
    BY <1>6 DEF GroupWait, WaitersOf
  <2>3. \A x \in Group : /\ gwaits'[x] = (IF x = g THEN gwaits[x] + 1 ELSE gwaits[x]) /\ gwaits[x] \in Nat
                         /\ t \notin GroupWaitersOf(x) /\ (t \in GroupWaitersOf(x)' <=> x = g)
    BY <1>6 DEF GroupWait, GroupWaitersOf
  <2>4. \A x \in Event : waits'[x] = waits[x] + (IF t \in WaitersOf(x)' THEN 1 ELSE 0)
                                            - (IF t \in WaitersOf(x) THEN 1 ELSE 0)
    BY ONLY <2>2, SMT
  <2>5. \A x \in Group : gwaits'[x] = gwaits[x] + (IF t \in GroupWaitersOf(x)' THEN 1 ELSE 0)
                                              - (IF t \in GroupWaitersOf(x) THEN 1 ELSE 0)
    BY ONLY <2>3, SMT
  <2> QED BY <2>1, <2>4, <2>5, CountChanged
<1>7. ASSUME NEW t \in Thread, Stir(t) PROVE CountInv'
  BY <1>7, CountKept DEF Stir
<1>8. ASSUME NEW t \in Thread, WaitTimeOut(t) PROVE CountInv'
  <2>1. \A u \in Thread \ {t} : pc'[u] = pc[u] /\ on'[u] = on[u]
    BY <1>8 DEF WaitTimeOut
  <2>2. \A x \in Event : /\ waits'[x] = (IF x = on[t] THEN waits[x] - 1 ELSE waits[x]) /\ waits[x] \in Nat
                         /\ t \notin WaitersOf(x)' /\ (t \in WaitersOf(x) <=> x = on[t])
    BY <1>8 DEF WaitTimeOut, WaitersOf
  <2>3. \A x \in Group : gwaits'[x] = gwaits[x] /\ gwaits[x] \in Nat /\ t \notin GroupWaitersOf(x) /\ t \notin GroupWaitersOf(x)'
    BY <1>8 DEF WaitTimeOut, GroupWaitersOf
  <2>4. \A x \in Event : waits'[x] = waits[x] + (IF t \in WaitersOf(x)' THEN 1 ELSE 0)
                                            - (IF t \in WaitersOf(x) THEN 1 ELSE 0)
    BY ONLY <2>2, SMT
  <2>5. \A x \in Group : gwaits'[x] = gwaits[x] + (IF t \in GroupWaitersOf(x)' THEN 1 ELSE 0)
                                              - (IF t \in GroupWaitersOf(x) THEN 1 ELSE 0)
    BY ONLY <2>3, SMT
  <2> QED BY <2>1, <2>4, <2>5, CountChanged
<1>9. ASSUME NEW t \in Thread, GroupTimeOut(t) PROVE CountInv'
  <2>1. \A u \in Thread \ {t} : pc'[u] = pc[u] /\ on'[u] = on[u]
    BY <1>9 DEF GroupTimeOut, GroupLeave
  <2>2. \A x \in Event : waits'[x] = waits[x] /\ waits[x] \in Nat /\ t \notin WaitersOf(x) /\ t \notin WaitersOf(x)'
    BY <1>9 DEF GroupTimeOut, GroupLeave, WaitersOf
  <2>3. \A x \in Group : /\ gwaits'[x] = (IF x = on[t] THEN gwaits[x] - 1 ELSE gwaits[x]) /\ gwaits[x] \in Nat
                         /\ t \notin GroupWaitersOf(x)' /\ (t \in GroupWaitersOf(x) <=> x = on[t])
    BY <1>9 DEF GroupTimeOut, GroupLeave, GroupWaitersOf
  <2>4. \A x \in Event : waits'[x] = waits[x] + (IF t \in WaitersOf(x)' THEN 1 ELSE 0)
                                            - (IF t \in WaitersOf(x) THEN 1 ELSE 0)
    BY ONLY <2>2, SMT
  <2>5. \A x \in Group : gwaits'[x] = gwaits[x] + (IF t \in GroupWaitersOf(x)' THEN 1 ELSE 0)
                                              - (IF t \in GroupWaitersOf(x) THEN 1 ELSE 0)
    BY ONLY <2>3, SMT
  <2> QED BY <2>1, <2>4, <2>5, CountChanged
<1>10. ASSUME NEW t \in Thread, Notify(t) PROVE CountInv'
  BY <1>10, CountKept DEF Notify
<1>11. ASSUME NEW t \in Thread, LockList(t) PROVE CountInv'
  BY <1>11, CountKept DEF LockList
<1>12. ASSUME NEW t \in Thread, TellGroup(t) PROVE CountInv'
  BY <1>12, CountKept DEF TellGroup
<1>13. ASSUME NEW t \in Thread, SetReturn(t) PROVE CountInv'
  BY <1>13, CountKept DEF SetReturn
<1>14. ASSUME NEW t \in Thread, WaitReturn(t) PROVE CountInv'
  <2>1. \A u \in Thread \ {t} : pc'[u] = pc[u] /\ on'[u] = on[u]
    BY <1>14 DEF WaitReturn
  <2>2. \A x \in Event : /\ waits'[x] = (IF x = on[t] THEN waits[x] - 1 ELSE waits[x]) /\ waits[x] \in Nat
                         /\ t \notin WaitersOf(x)' /\ (t \in WaitersOf(x) <=> x = on[t])
    BY <1>14 DEF WaitReturn, WaitersOf
  <2>3. \A x \in Group : gwaits'[x] = gwaits[x] /\ gwaits[x] \in Nat /\ t \notin GroupWaitersOf(x) /\ t \notin GroupWaitersOf(x)'
    BY <1>14 DEF WaitReturn, GroupWaitersOf
  <2>4. \A x \in Event : waits'[x] = waits[x] + (IF t \in WaitersOf(x)' THEN 1 ELSE 0)
                                            - (IF t \in WaitersOf(x) THEN 1 ELSE 0)
    BY ONLY <2>2, SMT
  <2>5. \A x \in Group : gwaits'[x] = gwaits[x] + (IF t \in GroupWaitersOf(x)' THEN 1 ELSE 0)
                                              - (IF t \in GroupWaitersOf(x) THEN 1 ELSE 0)
    BY ONLY <2>3, SMT
  <2> QED BY <2>1, <2>4, <2>5, CountChanged
<1>15. ASSUME NEW t \in Thread, WaitAgain(t) PROVE CountInv'
  BY <1>15, CountKept DEF WaitAgain
<1>16. ASSUME NEW t \in Thread, AddGroup(t) PROVE CountInv'
  BY <1>16, CountKept DEF AddGroup
<1>17. ASSUME NEW t \in Thread, Constructed(t) PROVE CountInv'
  BY <1>17, CountKept DEF Constructed
<1>18. ASSUME NEW t \in Thread, RemoveGroup(t) PROVE CountInv'
  BY <1>18, CountKept DEF RemoveGroup
<1>19. ASSUME NEW t \in Thread, Destroyed(t) PROVE CountInv'
  BY <1>19, CountKept DEF Destroyed
<1>20. ASSUME NEW t \in Thread, ScanEvent(t) PROVE CountInv'
  BY <1>20, CountKept DEF ScanEvent
<1>21. ASSUME NEW t \in Thread, GroupSleep(t) PROVE CountInv'
  BY <1>21, CountKept DEF GroupSleep
<1>22. ASSUME NEW t \in Thread, GroupAgain(t) PROVE CountInv'
  BY <1>22, CountKept DEF GroupAgain
<1>23. ASSUME NEW t \in Thread, GroupFound(t) PROVE CountInv'
  <2>1. \A u \in Thread \ {t} : pc'[u] = pc[u] /\ on'[u] = on[u]
    BY <1>23 DEF GroupFound, GroupLeave
  <2>2. \A x \in Event : waits'[x] = waits[x] /\ waits[x] \in Nat /\ t \notin WaitersOf(x) /\ t \notin WaitersOf(x)'
    BY <1>23 DEF GroupFound, GroupLeave, WaitersOf
  <2>3. \A x \in Group : /\ gwaits'[x] = (IF x = on[t] THEN gwaits[x] - 1 ELSE gwaits[x]) /\ gwaits[x] \in Nat
                         /\ t \notin GroupWaitersOf(x)' /\ (t \in GroupWaitersOf(x) <=> x = on[t])
    BY <1>23 DEF GroupFound, GroupLeave, GroupWaitersOf
  <2>4. \A x \in Event : waits'[x] = waits[x] + (IF t \in WaitersOf(x)' THEN 1 ELSE 0)
                                            - (IF t \in WaitersOf(x) THEN 1 ELSE 0)
    BY ONLY <2>2, SMT
  <2>5. \A x \in Group : gwaits'[x] = gwaits[x] + (IF t \in GroupWaitersOf(x)' THEN 1 ELSE 0)
                                              - (IF t \in GroupWaitersOf(x) THEN 1 ELSE 0)
    BY ONLY <2>3, SMT
  <2> QED BY <2>1, <2>4, <2>5, CountChanged
<1>24. ASSUME NEW t \in Thread, GroupTold(t) PROVE CountInv'
  <2>1. \A u \in Thread \ {t} : pc'[u] = pc[u] /\ on'[u] = on[u]
    BY <1>24 DEF GroupTold, GroupLeave
  <2>2. \A x \in Event : waits'[x] = waits[x] /\ waits[x] \in Nat /\ t \notin WaitersOf(x) /\ t \notin WaitersOf(x)'
    BY <1>24 DEF GroupTold, GroupLeave, WaitersOf
  <2>3. \A x \in Group : /\ gwaits'[x] = (IF x = on[t] THEN gwaits[x] - 1 ELSE gwaits[x]) /\ gwaits[x] \in Nat
                         /\ t \notin GroupWaitersOf(x)' /\ (t \in GroupWaitersOf(x) <=> x = on[t])
    BY <1>24 DEF GroupTold, GroupLeave, GroupWaitersOf
  <2>4. \A x \in Event : waits'[x] = waits[x] + (IF t \in WaitersOf(x)' THEN 1 ELSE 0)
                                            - (IF t \in WaitersOf(x) THEN 1 ELSE 0)
    BY ONLY <2>2, SMT
  <2>5. \A x \in Group : gwaits'[x] = gwaits[x] + (IF t \in GroupWaitersOf(x)' THEN 1 ELSE 0)
                                              - (IF t \in GroupWaitersOf(x) THEN 1 ELSE 0)
    BY ONLY <2>3, SMT
  <2> QED BY <2>1, <2>4, <2>5, CountChanged
<1>25. ASSUME NEW e \in Event, Reset(e) PROVE CountInv'
  BY <1>25, CountKept DEF Reset
<1>26. CASE UNCHANGED vars
  BY <1>26, CountKept DEF vars
<1> QED BY <1>1, <1>2, <1>3, <1>4, <1>5, <1>6, <1>7, <1>8, <1>9, <1>10, <1>11, <1>12, <1>13, <1>14, <1>15, <1>16, <1>17, <1>18, <1>19, <1>20, <1>21, <1>22, <1>23, <1>24, <1>25, <1>26 DEF Next, Progress

(* Nobody waits for a group that is not live, and one thread at most       *)
(* builds or destroys it: the destructor only starts when numWaits is 0.   *)
LEMMA LifeStep ==
  ASSUME IInv, [Next]_vars
  PROVE  LifeInv'
<1> USE EventAssumption DEF EventAssumption, IInv, TypeInv, PlaceInv, OnEvent, OnGroup, Counted, GCounted,
      Enter, Goto, ThreadStates, eventVars, groupVars, threadVars, Thread, LeftBy, LifeInv
<1>1. ASSUME NEW t \in Thread, NEW e \in Event, SetFlag(t, e) PROVE LifeInv'
  BY <1>1 DEF SetFlag
<1>2. ASSUME NEW t \in Thread, NEW e \in Event, WaitSignaled(t, e) PROVE LifeInv'
  BY <1>2 DEF WaitSignaled
<1>3. ASSUME NEW t \in Thread, NEW e \in Event, WaitSleep(t, e) PROVE LifeInv'
  BY <1>3 DEF WaitSleep
<1>4. ASSUME NEW t \in Thread, NEW g \in Group, Construct(t, g) PROVE LifeInv'
  BY <1>4 DEF Construct
<1>5. ASSUME NEW t \in Thread, NEW g \in Group, Destroy(t, g) PROVE LifeInv'
  <2>1. \A u \in Thread : pc[u] \in GCounted => on[u] # g
    BY <1>5, NobodyIsCounted DEF Destroy
  <2> QED BY <1>5, <2>1 DEF Destroy
<1>6. ASSUME NEW t \in Thread, NEW g \in Group, GroupWait(t, g) PROVE LifeInv'
  BY <1>6 DEF GroupWait
<1>7. ASSUME NEW t \in Thread, Stir(t) PROVE LifeInv'
  BY <1>7 DEF Stir
<1>8. ASSUME NEW t \in Thread, WaitTimeOut(t) PROVE LifeInv'
  BY <1>8 DEF WaitTimeOut
<1>9. ASSUME NEW t \in Thread, GroupTimeOut(t) PROVE LifeInv'
  BY <1>9 DEF GroupTimeOut, GroupLeave
<1>10. ASSUME NEW t \in Thread, Notify(t) PROVE LifeInv'
  BY <1>10 DEF Notify
<1>11. ASSUME NEW t \in Thread, LockList(t) PROVE LifeInv'
  BY <1>11 DEF LockList
<1>12. ASSUME NEW t \in Thread, TellGroup(t) PROVE LifeInv'
  BY <1>12 DEF TellGroup
<1>13. ASSUME NEW t \in Thread, SetReturn(t) PROVE LifeInv'
  BY <1>13 DEF SetReturn
<1>14. ASSUME NEW t \in Thread, WaitReturn(t) PROVE LifeInv'
  BY <1>14 DEF WaitReturn
<1>15. ASSUME NEW t \in Thread, WaitAgain(t) PROVE LifeInv'
  BY <1>15 DEF WaitAgain
<1>16. ASSUME NEW t \in Thread, AddGroup(t) PROVE LifeInv'
  BY <1>16 DEF AddGroup
<1>17. ASSUME NEW t \in Thread, Constructed(t) PROVE LifeInv'
  BY <1>17 DEF Constructed
<1>18. ASSUME NEW t \in Thread, RemoveGroup(t) PROVE LifeInv'
  BY <1>18 DEF RemoveGroup
<1>19. ASSUME NEW t \in Thread, Destroyed(t) PROVE LifeInv'
  BY <1>19 DEF Destroyed
<1>20. ASSUME NEW t \in Thread, ScanEvent(t) PROVE LifeInv'
  BY <1>20 DEF ScanEvent
<1>21. ASSUME NEW t \in Thread, GroupSleep(t) PROVE LifeInv'
  BY <1>21 DEF GroupSleep
<1>22. ASSUME NEW t \in Thread, GroupAgain(t) PROVE LifeInv'
  BY <1>22 DEF GroupAgain
<1>23. ASSUME NEW t \in Thread, GroupFound(t) PROVE LifeInv'
  BY <1>23 DEF GroupFound, GroupLeave
<1>24. ASSUME NEW t \in Thread, GroupTold(t) PROVE LifeInv'
  BY <1>24 DEF GroupTold, GroupLeave
<1>25. ASSUME NEW e \in Event, Reset(e) PROVE LifeInv'
  BY <1>25 DEF Reset
<1>26. CASE UNCHANGED vars
  BY <1>26 DEF vars, eventVars, groupVars, threadVars
<1> QED BY <1>1, <1>2, <1>3, <1>4, <1>5, <1>6, <1>7, <1>8, <1>9, <1>10, <1>11, <1>12, <1>13, <1>14, <1>15, <1>16, <1>17, <1>18, <1>19, <1>20, <1>21, <1>22, <1>23, <1>24, <1>25, <1>26 DEF Next, Progress

(* The lists change under groupListMutex only, and so agree with the loops *)
(* over them and with the life of the groups.                              *)
LEMMA ListStep ==
  ASSUME IInv, [Next]_vars
  PROVE  ListInv'
<1> USE EventAssumption DEF EventAssumption, IInv, TypeInv, PlaceInv, OnEvent, OnGroup, Counted, GCounted,
      Enter, Goto, eventVars, groupVars, threadVars, Thread, LockInv, LifeInv, ListInv, ListedInv, LoopInv, TellInv
<1>1. ASSUME NEW t \in Thread, NEW e \in Event, SetFlag(t, e) PROVE ListInv'
  BY <1>1 DEF SetFlag
<1>2. ASSUME NEW t \in Thread, NEW e \in Event, WaitSignaled(t, e) PROVE ListInv'
  BY <1>2 DEF WaitSignaled
<1>3. ASSUME NEW t \in Thread, NEW e \in Event, WaitSleep(t, e) PROVE ListInv'
  BY <1>3 DEF WaitSleep
<1>4. ASSUME NEW t \in Thread, NEW g \in Group, Construct(t, g) PROVE ListInv'
  <2>1. gstate[g] = "none" /\ \A h \in Group : gstate'[h] = IF h = g THEN "building" ELSE gstate[h]
    BY <1>4 DEF Construct
  <2>2. \A u \in Thread : /\ pc'[u] = (IF u = t THEN "build" ELSE pc[u])
                          /\ on'[u] = (IF u = t THEN g ELSE on[u])
                          /\ todo'[u] = (IF u = t THEN Members[g] ELSE todo[u])
    BY <1>4 DEF Construct
  <2>3. groups' = groups
    BY <1>4 DEF Construct
  <2>10. ListedInv /\ LoopInv /\ TellInv /\ LifeInv /\ \A u \in Thread : pc[u] = "tell" => on[u] \in Event
    OBVIOUS
  <2>11. ListedInv'
    BY ONLY <2>10, <2>1, <2>2, <2>3
  <2>12. LoopInv'
    BY ONLY <2>10, <2>1, <2>2, <2>3
  <2>13. TellInv'
    BY ONLY <2>10, <2>1, <2>2, <2>3
  <2> QED BY <2>11, <2>12, <2>13 DEF ListInv
<1>5. ASSUME NEW t \in Thread, NEW g \in Group, Destroy(t, g) PROVE ListInv'
  BY <1>5 DEF Destroy
<1>6. ASSUME NEW t \in Thread, NEW g \in Group, GroupWait(t, g) PROVE ListInv'
  BY <1>6 DEF GroupWait
<1>7. ASSUME NEW t \in Thread, Stir(t) PROVE ListInv'
  <2>1. \A u \in Thread : /\ pc[u] \in {"scan", "build", "destroy", "tell"} => pc'[u] = pc[u]
                          /\ pc'[u] \in {"scan", "build", "destroy", "tell"} => pc'[u] = pc[u]
    BY <1>7 DEF Stir
  <2>2. groups' = groups /\ gstate' = gstate /\ on' = on /\ todo' = todo
    BY <1>7 DEF Stir
  <2>10. ListedInv /\ LoopInv /\ TellInv /\ LifeInv /\ \A u \in Thread : pc[u] = "tell" => on[u] \in Event
    OBVIOUS
  <2>11. ListedInv'
    BY ONLY <2>10, <2>1, <2>2
  <2>12. LoopInv'
    BY ONLY <2>10, <2>1, <2>2
  <2>13. TellInv'
    BY ONLY <2>10, <2>1, <2>2
  <2> QED BY <2>11, <2>12, <2>13 DEF ListInv
<1>8. ASSUME NEW t \in Thread, WaitTimeOut(t) PROVE ListInv'
  BY <1>8 DEF WaitTimeOut
<1>9. ASSUME NEW t \in Thread, GroupTimeOut(t) PROVE ListInv'
  BY <1>9 DEF GroupTimeOut, GroupLeave
<1>10. ASSUME NEW t \in Thread, Notify(t) PROVE ListInv'
  BY <1>10 DEF Notify
<1>11. ASSUME NEW t \in Thread, LockList(t) PROVE ListInv'
  BY <1>11 DEF LockList
<1>12. ASSUME NEW t \in Thread, TellGroup(t) PROVE ListInv'
  <2>1. todo[t] \in Seq(Group) /\ todo[t] # <<>>
    BY <1>12 DEF TellGroup
  <2>2. \A x : Contains(todo[t], x) <=> x = Head(todo[t]) \/ Contains(Tail(todo[t]), x)
    BY <2>1, ContainsTail
  <2> QED BY <1>12, <2>2 DEF TellGroup
<1>13. ASSUME NEW t \in Thread, SetReturn(t) PROVE ListInv'
  BY <1>13 DEF SetReturn
<1>14. ASSUME NEW t \in Thread, WaitReturn(t) PROVE ListInv'
  BY <1>14 DEF WaitReturn
<1>15. ASSUME NEW t \in Thread, WaitAgain(t) PROVE ListInv'
  BY <1>15 DEF WaitAgain
<1>16. ASSUME NEW t \in Thread, AddGroup(t) PROVE ListInv'
  <2> DEFINE d == Head(todo[t])
  <2>1. todo[t] \in Seq(Event) /\ todo[t] # <<>> /\ on[t] \in Group
    BY <1>16 DEF AddGroup
  <2>2. d \in Event /\ \A x : Contains(todo[t], x) <=> x = d \/ Contains(Tail(todo[t]), x)
    BY <2>1, ContainsTail
  <2>3. \A g : Contains(Append(groups[d], on[t]), g) <=> Contains(groups[d], g) \/ g = on[t]
    BY <2>1, <2>2, ContainsAppend
  <2>4. \A e \in Event : groups'[e] = IF e = d THEN Append(groups[d], on[t]) ELSE groups[e]
    BY <1>16, <2>2 DEF AddGroup
  <2>5. \A u \in Thread : todo'[u] = IF u = t THEN Tail(todo[t]) ELSE todo[u]
    BY <1>16 DEF AddGroup
  <2>6. \A u \in Thread : pc[u] = "tell" => on[u] # d
    BY <1>16 DEF AddGroup
  <2>7. pc[t] = "build" /\ pc' = pc /\ on' = on /\ gstate' = gstate
    BY <1>16 DEF AddGroup
  <2> HIDE DEF d
  <2>10. ListedInv /\ LoopInv /\ TellInv /\ LifeInv /\ \A u \in Thread : pc[u] = "tell" => on[u] \in Event
    OBVIOUS
  <2>11. ListedInv'
    BY ONLY <2>10, <2>1, <2>2, <2>3, <2>4, <2>5, <2>6, <2>7
  <2>12. LoopInv'
    BY ONLY <2>10, <2>1, <2>2, <2>3, <2>4, <2>5, <2>6, <2>7
  <2>13. TellInv'
    BY ONLY <2>10, <2>1, <2>2, <2>3, <2>4, <2>5, <2>6, <2>7
  <2> QED BY <2>11, <2>12, <2>13 DEF ListInv
<1>17. ASSUME NEW t \in Thread, Constructed(t) PROVE ListInv'
  <2>1. \A x : ~Contains(todo[t], x)
    BY <1>17, ContainsNothing DEF Constructed
  <2>2. on[t] \in Group /\ \A e \in Event : Contains(Members[on[t]], e) => Contains(groups[e], on[t])
    BY <1>17, <2>1 DEF Constructed
  <2>3. \A h \in Group : gstate'[h] = IF h = on[t] THEN "live" ELSE gstate[h]
    BY <1>17 DEF Constructed
  <2>4. \A u \in Thread : /\ pc'[u] = (IF u = t THEN "idle" ELSE pc[u])
                          /\ u # t => on'[u] = on[u]
    BY <1>17 DEF Constructed
  <2>5. groups' = groups /\ todo' = todo
    BY <1>17 DEF Constructed
  <2>10. ListedInv /\ LoopInv /\ TellInv /\ LifeInv /\ \A u \in Thread : pc[u] = "tell" => on[u] \in Event
    OBVIOUS
  <2>11. ListedInv'
    BY ONLY <2>10, <2>2, <2>3, <2>4, <2>5
  <2>12. LoopInv'
    BY ONLY <2>10, <2>2, <2>3, <2>4, <2>5
  <2>13. TellInv'
    BY ONLY <2>10, <2>2, <2>3, <2>4, <2>5
  <2> QED BY <2>11, <2>12, <2>13 DEF ListInv
<1>18. ASSUME NEW t \in Thread, RemoveGroup(t) PROVE ListInv'
  <2> DEFINE d == Head(todo[t])
  <2>1. todo[t] \in Seq(Event) /\ todo[t] # <<>> /\ on[t] \in Group
    BY <1>18 DEF RemoveGroup
  <2>2. d \in Event /\ \A x : Contains(todo[t], x) <=> x = d \/ Contains(Tail(todo[t]), x)
    BY <2>1, ContainsTail
  <2>3. \A g : Contains(Without(groups[d], on[t]), g) <=> Contains(groups[d], g) /\ g # on[t]
    BY <2>1, <2>2, ContainsWithout
  <2>4. \A e \in Event : groups'[e] = IF e = d THEN Without(groups[d], on[t]) ELSE groups[e]
    BY <1>18, <2>2 DEF RemoveGroup
  <2>5. \A u \in Thread : todo'[u] = IF u = t THEN Tail(todo[t]) ELSE todo[u]
    BY <1>18 DEF RemoveGroup
  <2>6. \A u \in Thread : pc[u] = "tell" => on[u] # d
    BY <1>18 DEF RemoveGroup
  <2>7. pc[t] = "destroy" /\ pc' = pc /\ on' = on /\ gstate' = gstate
    BY <1>18 DEF RemoveGroup
  <2> HIDE DEF d
  <2>10. ListedInv /\ LoopInv /\ TellInv /\ LifeInv /\ \A u \in Thread : pc[u] = "tell" => on[u] \in Event
    OBVIOUS
  <2>11. ListedInv'
    BY ONLY <2>10, <2>1, <2>2, <2>3, <2>4, <2>5, <2>6, <2>7
  <2>12. LoopInv'
    BY ONLY <2>10, <2>1, <2>2, <2>3, <2>4, <2>5, <2>6, <2>7
  <2>13. TellInv'
    BY ONLY <2>10, <2>1, <2>2, <2>3, <2>4, <2>5, <2>6, <2>7
  <2> QED BY <2>11, <2>12, <2>13 DEF ListInv
<1>19. ASSUME NEW t \in Thread, Destroyed(t) PROVE ListInv'
  <2>1. \A x : ~Contains(todo[t], x)
    BY <1>19, ContainsNothing DEF Destroyed
  <2>2. on[t] \in Group /\ \A e \in Event : ~Contains(groups[e], on[t])
    BY <1>19, <2>1 DEF Destroyed
  <2>3. \A h \in Group : gstate'[h] = IF h = on[t] THEN "none" ELSE gstate[h]
    BY <1>19 DEF Destroyed
  <2>4. \A u \in Thread : /\ pc'[u] = (IF u = t THEN "idle" ELSE pc[u])
                          /\ u # t => on'[u] = on[u]
    BY <1>19 DEF Destroyed
  <2>5. groups' = groups /\ todo' = todo
    BY <1>19 DEF Destroyed
  <2>10. ListedInv /\ LoopInv /\ TellInv /\ LifeInv /\ \A u \in Thread : pc[u] = "tell" => on[u] \in Event
    OBVIOUS
  <2>11. ListedInv'
    BY ONLY <2>10, <2>2, <2>3, <2>4, <2>5
  <2>12. LoopInv'
    BY ONLY <2>10, <2>2, <2>3, <2>4, <2>5
  <2>13. TellInv'
    BY ONLY <2>10, <2>2, <2>3, <2>4, <2>5
  <2> QED BY <2>11, <2>12, <2>13 DEF ListInv
<1>20. ASSUME NEW t \in Thread, ScanEvent(t) PROVE ListInv'
  <2>1. todo[t] \in Seq(Event) /\ todo[t] # <<>>
    BY <1>20 DEF ScanEvent
  <2>2. \A x : Contains(todo[t], x) <=> x = Head(todo[t]) \/ Contains(Tail(todo[t]), x)
    BY <2>1, ContainsTail
  <2> QED BY <1>20, <2>2 DEF ScanEvent
<1>21. ASSUME NEW t \in Thread, GroupSleep(t) PROVE ListInv'
  BY <1>21 DEF GroupSleep
<1>22. ASSUME NEW t \in Thread, GroupAgain(t) PROVE ListInv'
  BY <1>22 DEF GroupAgain
<1>23. ASSUME NEW t \in Thread, GroupFound(t) PROVE ListInv'
  BY <1>23 DEF GroupFound, GroupLeave
<1>24. ASSUME NEW t \in Thread, GroupTold(t) PROVE ListInv'
  BY <1>24 DEF GroupTold, GroupLeave
<1>25. ASSUME NEW e \in Event, Reset(e) PROVE ListInv'
  BY <1>25 DEF Reset
<1>26. CASE UNCHANGED vars
  BY <1>26 DEF vars, eventVars, groupVars, threadVars
<1> QED BY <1>1, <1>2, <1>3, <1>4, <1>5, <1>6, <1>7, <1>8, <1>9, <1>10, <1>11, <1>12, <1>13, <1>14, <1>15, <1>16, <1>17, <1>18, <1>19, <1>20, <1>21, <1>22, <1>23, <1>24, <1>25, <1>26 DEF Next, Progress

(* Set() raises the flag before its notifyAll, and nobody goes to sleep    *)
(* while the flag is up.                                                   *)
LEMMA WakeupStep ==
  ASSUME IInv, [Next]_vars
  PROVE  NoMissedWakeup'
<1> USE EventAssumption DEF EventAssumption, IInv, TypeInv, PlaceInv, OnEvent, OnGroup, Counted, GCounted,
      Enter, Goto, ThreadStates, eventVars, groupVars, threadVars, Thread, LeftBy, NoMissedWakeup
<1>1. ASSUME NEW t \in Thread, NEW e \in Event, SetFlag(t, e) PROVE NoMissedWakeup'
  BY <1>1 DEF SetFlag
<1>2. ASSUME NEW t \in Thread, NEW e \in Event, WaitSignaled(t, e) PROVE NoMissedWakeup'
  <2>1. \A x \in Event : signaled'[x] => signaled[x]
    BY <1>2 DEF WaitSignaled
  <2>2. pc' = pc /\ on' = on
    BY <1>2 DEF WaitSignaled
  <2> QED BY <2>1, <2>2
<1>3. ASSUME NEW t \in Thread, NEW e \in Event, WaitSleep(t, e) PROVE NoMissedWakeup'
  BY <1>3 DEF WaitSleep
<1>4. ASSUME NEW t \in Thread, NEW g \in Group, Construct(t, g) PROVE NoMissedWakeup'
  BY <1>4 DEF Construct
<1>5. ASSUME NEW t \in Thread, NEW g \in Group, Destroy(t, g) PROVE NoMissedWakeup'
  BY <1>5 DEF Destroy
<1>6. ASSUME NEW t \in Thread, NEW g \in Group, GroupWait(t, g) PROVE NoMissedWakeup'
  BY <1>6 DEF GroupWait
<1>7. ASSUME NEW t \in Thread, Stir(t) PROVE NoMissedWakeup'
  <2>1. \A u \in Thread : (pc'[u] = "asleep" => pc[u] = "asleep") /\ (pc[u] = "notify" => pc'[u] = "notify")
    BY <1>7 DEF Stir
  <2>2. signaled' = signaled /\ on' = on
    BY <1>7 DEF Stir
  <2> QED BY <2>1, <2>2
<1>8. ASSUME NEW t \in Thread, WaitTimeOut(t) PROVE NoMissedWakeup'
  BY <1>8 DEF WaitTimeOut
<1>9. ASSUME NEW t \in Thread, GroupTimeOut(t) PROVE NoMissedWakeup'
  BY <1>9 DEF GroupTimeOut, GroupLeave
<1>10. ASSUME NEW t \in Thread, Notify(t) PROVE NoMissedWakeup'
  BY <1>10 DEF Notify
<1>11. ASSUME NEW t \in Thread, LockList(t) PROVE NoMissedWakeup'
  BY <1>11 DEF LockList
<1>12. ASSUME NEW t \in Thread, TellGroup(t) PROVE NoMissedWakeup'
  BY <1>12 DEF TellGroup
<1>13. ASSUME NEW t \in Thread, SetReturn(t) PROVE NoMissedWakeup'
  BY <1>13 DEF SetReturn
<1>14. ASSUME NEW t \in Thread, WaitReturn(t) PROVE NoMissedWakeup'
  BY <1>14 DEF WaitReturn
<1>15. ASSUME NEW t \in Thread, WaitAgain(t) PROVE NoMissedWakeup'
  BY <1>15 DEF WaitAgain
<1>16. ASSUME NEW t \in Thread, AddGroup(t) PROVE NoMissedWakeup'
  BY <1>16 DEF AddGroup
<1>17. ASSUME NEW t \in Thread, Constructed(t) PROVE NoMissedWakeup'
  BY <1>17 DEF Constructed
<1>18. ASSUME NEW t \in Thread, RemoveGroup(t) PROVE NoMissedWakeup'
  BY <1>18 DEF RemoveGroup
<1>19. ASSUME NEW t \in Thread, Destroyed(t) PROVE NoMissedWakeup'
  BY <1>19 DEF Destroyed
<1>20. ASSUME NEW t \in Thread, ScanEvent(t) PROVE NoMissedWakeup'
  BY <1>20 DEF ScanEvent
<1>21. ASSUME NEW t \in Thread, GroupSleep(t) PROVE NoMissedWakeup'
  BY <1>21 DEF GroupSleep
<1>22. ASSUME NEW t \in Thread, GroupAgain(t) PROVE NoMissedWakeup'
  BY <1>22 DEF GroupAgain
<1>23. ASSUME NEW t \in Thread, GroupFound(t) PROVE NoMissedWakeup'
  BY <1>23 DEF GroupFound, GroupLeave
<1>24. ASSUME NEW t \in Thread, GroupTold(t) PROVE NoMissedWakeup'
  BY <1>24 DEF GroupTold, GroupLeave
<1>25. ASSUME NEW e \in Event, Reset(e) PROVE NoMissedWakeup'
  BY <1>25 DEF Reset
<1>26. CASE UNCHANGED vars
  BY <1>26 DEF vars, eventVars, groupVars, threadVars
<1> QED BY <1>1, <1>2, <1>3, <1>4, <1>5, <1>6, <1>7, <1>8, <1>9, <1>10, <1>11, <1>12, <1>13, <1>14, <1>15, <1>16, <1>17, <1>18, <1>19, <1>20, <1>21, <1>22, <1>23, <1>24, <1>25, <1>26 DEF Next, Progress

-----------------------------------------------------------------------------
(* How a signal gets to the threads of a group. Flags are raised by Set()  *)
(* only, ...                                                               *)
LEMMA SignalStep ==
  ASSUME IInv, [Next]_vars, NEW e \in Event, signaled'[e]
  PROVE  signaled[e] \/ \E t \in Thread : SetFlag(t, e)
<1> DEFINE Goal == signaled[e] \/ \E t \in Thread : SetFlag(t, e)
<1> USE EventAssumption DEF EventAssumption, IInv, TypeInv, PlaceInv, OnEvent, OnGroup, Counted, GCounted,
      Enter, Goto, eventVars, groupVars, threadVars, Thread, LeftBy
<1>1. ASSUME NEW s \in Thread, NEW d \in Event, SetFlag(s, d) PROVE Goal
  BY <1>1 DEF SetFlag
<1>2. ASSUME NEW s \in Thread, NEW d \in Event, WaitSignaled(s, d) PROVE Goal
  BY <1>2 DEF WaitSignaled
<1>3. ASSUME NEW s \in Thread, NEW d \in Event, WaitSleep(s, d) PROVE Goal
  BY <1>3 DEF WaitSleep
<1>4. ASSUME NEW s \in Thread, NEW h \in Group, Construct(s, h) PROVE Goal
  BY <1>4 DEF Construct
<1>5. ASSUME NEW s \in Thread, NEW h \in Group, Destroy(s, h) PROVE Goal
  BY <1>5 DEF Destroy
<1>6. ASSUME NEW s \in Thread, NEW h \in Group, GroupWait(s, h) PROVE Goal
  BY <1>6 DEF GroupWait
<1>7. ASSUME NEW s \in Thread, Stir(s) PROVE Goal
  BY <1>7 DEF Stir
<1>8. ASSUME NEW s \in Thread, WaitTimeOut(s) PROVE Goal
  BY <1>8 DEF WaitTimeOut
<1>9. ASSUME NEW s \in Thread, GroupTimeOut(s) PROVE Goal
  BY <1>9 DEF GroupTimeOut, GroupLeave
<1>10. ASSUME NEW s \in Thread, Notify(s) PROVE Goal
  BY <1>10 DEF Notify
<1>11. ASSUME NEW s \in Thread, LockList(s) PROVE Goal
  BY <1>11 DEF LockList
<1>12. ASSUME NEW s \in Thread, TellGroup(s) PROVE Goal
  BY <1>12 DEF TellGroup
<1>13. ASSUME NEW s \in Thread, SetReturn(s) PROVE Goal
  BY <1>13 DEF SetReturn
<1>14. ASSUME NEW s \in Thread, WaitReturn(s) PROVE Goal
  BY <1>14 DEF WaitReturn
<1>15. ASSUME NEW s \in Thread, WaitAgain(s) PROVE Goal
  BY <1>15 DEF WaitAgain
<1>16. ASSUME NEW s \in Thread, AddGroup(s) PROVE Goal
  BY <1>16 DEF AddGroup
<1>17. ASSUME NEW s \in Thread, Constructed(s) PROVE Goal
  BY <1>17 DEF Constructed
<1>18. ASSUME NEW s \in Thread, RemoveGroup(s) PROVE Goal
  BY <1>18 DEF RemoveGroup
<1>19. ASSUME NEW s \in Thread, Destroyed(s) PROVE Goal
  BY <1>19 DEF Destroyed
<1>20. ASSUME NEW s \in Thread, ScanEvent(s) PROVE Goal
  BY <1>20 DEF ScanEvent
<1>21. ASSUME NEW s \in Thread, GroupSleep(s) PROVE Goal
  BY <1>21 DEF GroupSleep
<1>22. ASSUME NEW s \in Thread, GroupAgain(s) PROVE Goal
  BY <1>22 DEF GroupAgain
<1>23. ASSUME NEW s \in Thread, GroupFound(s) PROVE Goal
  BY <1>23 DEF GroupFound, GroupLeave
<1>24. ASSUME NEW s \in Thread, GroupTold(s) PROVE Goal
  BY <1>24 DEF GroupTold, GroupLeave
<1>25. ASSUME NEW d \in Event, Reset(d) PROVE Goal
  BY <1>25 DEF Reset
<1>26. CASE UNCHANGED vars
  BY <1>26 DEF vars
<1> HIDE DEF Goal
<1> QED BY <1>1, <1>2, <1>3, <1>4, <1>5, <1>6, <1>7, <1>8, <1>9, <1>10, <1>11, <1>12, <1>13, <1>14, <1>15, <1>16, <1>17, <1>18, <1>19, <1>20, <1>21, <1>22, <1>23, <1>24, <1>25, <1>26 DEF Goal, Next, Progress

(* ... a group's flag is cleared by a wait() that begins or by the last to *)
(* leave, ...                                                              *)
LEMMA FlagCleared ==
  ASSUME IInv, [Next]_vars, NEW t \in Thread, pc'[t] \in GCounted, gsignaled'[on'[t]] = NULL
  PROVE  \/ pc[t] \in GCounted /\ on'[t] = on[t] /\ gsignaled[on[t]] = NULL
         \/ \E u \in Thread : GroupWait(u, on'[t])
<1> DEFINE Goal == \/ pc[t] \in GCounted /\ on'[t] = on[t] /\ gsignaled[on[t]] = NULL
                   \/ \E u \in Thread : GroupWait(u, on'[t])
<1> USE EventAssumption DEF EventAssumption, IInv, TypeInv, PlaceInv, OnEvent, OnGroup, Counted, GCounted,
      Enter, Goto, eventVars, groupVars, threadVars, Thread, LifeInv
<1>1. ASSUME NEW s \in Thread, NEW d \in Event, SetFlag(s, d) PROVE Goal
  BY <1>1 DEF SetFlag
<1>2. ASSUME NEW s \in Thread, NEW d \in Event, WaitSignaled(s, d) PROVE Goal
  BY <1>2 DEF WaitSignaled
<1>3. ASSUME NEW s \in Thread, NEW d \in Event, WaitSleep(s, d) PROVE Goal
  BY <1>3 DEF WaitSleep
<1>4. ASSUME NEW s \in Thread, NEW h \in Group, Construct(s, h) PROVE Goal
  BY <1>4 DEF Construct
<1>5. ASSUME NEW s \in Thread, NEW h \in Group, Destroy(s, h) PROVE Goal
  BY <1>5 DEF Destroy
<1>6. ASSUME NEW s \in Thread, NEW h \in Group, GroupWait(s, h) PROVE Goal
  BY <1>6 DEF GroupWait
<1>7. ASSUME NEW s \in Thread, Stir(s) PROVE Goal
  BY <1>7 DEF Stir
<1>8. ASSUME NEW s \in Thread, WaitTimeOut(s) PROVE Goal
  BY <1>8 DEF WaitTimeOut
<1>9. ASSUME NEW s \in Thread, GroupTimeOut(s) PROVE Goal
  BY <1>9 DEF GroupTimeOut, GroupLeave
<1>10. ASSUME NEW s \in Thread, Notify(s) PROVE Goal
  BY <1>10 DEF Notify
<1>11. ASSUME NEW s \in Thread, LockList(s) PROVE Goal
  BY <1>11 DEF LockList
<1>12. ASSUME NEW s \in Thread, TellGroup(s) PROVE Goal
  BY <1>12 DEF TellGroup
<1>13. ASSUME NEW s \in Thread, SetReturn(s) PROVE Goal
  BY <1>13 DEF SetReturn
<1>14. ASSUME NEW s \in Thread, WaitReturn(s) PROVE Goal
  BY <1>14 DEF WaitReturn
<1>15. ASSUME NEW s \in Thread, WaitAgain(s) PROVE Goal
  BY <1>15 DEF WaitAgain
<1>16. ASSUME NEW s \in Thread, AddGroup(s) PROVE Goal
  BY <1>16 DEF AddGroup
<1>17. ASSUME NEW s \in Thread, Constructed(s) PROVE Goal
  BY <1>17 DEF Constructed
<1>18. ASSUME NEW s \in Thread, RemoveGroup(s) PROVE Goal
  BY <1>18 DEF RemoveGroup
<1>19. ASSUME NEW s \in Thread, Destroyed(s) PROVE Goal
  BY <1>19 DEF Destroyed
<1>20. ASSUME NEW s \in Thread, ScanEvent(s) PROVE Goal
  BY <1>20 DEF ScanEvent
<1>21. ASSUME NEW s \in Thread, GroupSleep(s) PROVE Goal
  BY <1>21 DEF GroupSleep
<1>22. ASSUME NEW s \in Thread, GroupAgain(s) PROVE Goal
  BY <1>22 DEF GroupAgain
<1>23. ASSUME NEW s \in Thread, GroupFound(s) PROVE Goal
  <2>1. pc[s] \in GCounted /\ pc'[s] = "idle"
    BY <1>23 DEF GroupFound, GroupLeave
  <2>2. t # s /\ pc'[t] = pc[t] /\ on'[t] = on[t]
    BY <1>23, <2>1 DEF GroupFound, GroupLeave
  <2>3. gsignaled[on[t]] = NULL \/ (on[t] = on[s] /\ gwaits[on[s]] = 1)
    <3>1. on[t] \in Group /\ on[s] \in Group /\ gsignaled'[on[t]] = NULL
      BY <2>1, <2>2
    <3> QED BY <1>23, <3>1 DEF GroupFound, GroupLeave
  <2>4. ~(on[t] = on[s] /\ gwaits[on[s]] = 1)
    BY <2>1, <2>2, CountedAlone
  <2> QED BY <2>2, <2>3, <2>4
<1>24. ASSUME NEW s \in Thread, GroupTold(s) PROVE Goal
  <2>1. pc[s] \in GCounted /\ pc'[s] = "idle"
    BY <1>24 DEF GroupTold, GroupLeave
  <2>2. t # s /\ pc'[t] = pc[t] /\ on'[t] = on[t]
    BY <1>24, <2>1 DEF GroupTold, GroupLeave
  <2>3. gsignaled[on[t]] = NULL \/ (on[t] = on[s] /\ gwaits[on[s]] = 1)
    <3>1. on[t] \in Group /\ on[s] \in Group /\ gsignaled'[on[t]] = NULL
      BY <2>1, <2>2
    <3> QED BY <1>24, <3>1 DEF GroupTold, GroupLeave
  <2>4. ~(on[t] = on[s] /\ gwaits[on[s]] = 1)
    BY <2>1, <2>2, CountedAlone
  <2> QED BY <2>2, <2>3, <2>4
<1>25. ASSUME NEW d \in Event, Reset(d) PROVE Goal
  BY <1>25 DEF Reset
<1>26. CASE UNCHANGED vars
  BY <1>26 DEF vars
<1> HIDE DEF Goal
<1> QED BY <1>1, <1>2, <1>3, <1>4, <1>5, <1>6, <1>7, <1>8, <1>9, <1>10, <1>11, <1>12, <1>13, <1>14, <1>15, <1>16, <1>17, <1>18, <1>19, <1>20, <1>21, <1>22, <1>23, <1>24, <1>25, <1>26 DEF Goal, Next, Progress

(* ... and a thread falls asleep on a group from two places.               *)
LEMMA FallsAsleep ==
  ASSUME IInv, [Next]_vars, NEW t \in Thread, pc'[t] = "gasleep"
  PROVE  on'[t] = on[t] /\ (pc[t] = "gasleep" \/ GroupSleep(t) \/ GroupAgain(t))
<1> DEFINE Goal == on'[t] = on[t] /\ (pc[t] = "gasleep" \/ GroupSleep(t) \/ GroupAgain(t))
<1> USE EventAssumption DEF EventAssumption, IInv, TypeInv, PlaceInv, OnEvent, OnGroup, Counted, GCounted,
      Enter, Goto, eventVars, groupVars, threadVars, Thread
<1>1. ASSUME NEW s \in Thread, NEW d \in Event, SetFlag(s, d) PROVE Goal
  BY <1>1 DEF SetFlag
<1>2. ASSUME NEW s \in Thread, NEW d \in Event, WaitSignaled(s, d) PROVE Goal
  BY <1>2 DEF WaitSignaled
<1>3. ASSUME NEW s \in Thread, NEW d \in Event, WaitSleep(s, d) PROVE Goal
  BY <1>3 DEF WaitSleep
<1>4. ASSUME NEW s \in Thread, NEW h \in Group, Construct(s, h) PROVE Goal
  BY <1>4 DEF Construct
<1>5. ASSUME NEW s \in Thread, NEW h \in Group, Destroy(s, h) PROVE Goal
  BY <1>5 DEF Destroy
<1>6. ASSUME NEW s \in Thread, NEW h \in Group, GroupWait(s, h) PROVE Goal
  BY <1>6 DEF GroupWait
<1>7. ASSUME NEW s \in Thread, Stir(s) PROVE Goal
  BY <1>7 DEF Stir
<1>8. ASSUME NEW s \in Thread, WaitTimeOut(s) PROVE Goal
  BY <1>8 DEF WaitTimeOut
<1>9. ASSUME NEW s \in Thread, GroupTimeOut(s) PROVE Goal
  BY <1>9 DEF GroupTimeOut, GroupLeave
<1>10. ASSUME NEW s \in Thread, Notify(s) PROVE Goal
  BY <1>10 DEF Notify
<1>11. ASSUME NEW s \in Thread, LockList(s) PROVE Goal
  BY <1>11 DEF LockList
<1>12. ASSUME NEW s \in Thread, TellGroup(s) PROVE Goal
  BY <1>12 DEF TellGroup
<1>13. ASSUME NEW s \in Thread, SetReturn(s) PROVE Goal
  BY <1>13 DEF SetReturn
<1>14. ASSUME NEW s \in Thread, WaitReturn(s) PROVE Goal
  BY <1>14 DEF WaitReturn
<1>15. ASSUME NEW s \in Thread, WaitAgain(s) PROVE Goal
  BY <1>15 DEF WaitAgain
<1>16. ASSUME NEW s \in Thread, AddGroup(s) PROVE Goal
  BY <1>16 DEF AddGroup
<1>17. ASSUME NEW s \in Thread, Constructed(s) PROVE Goal
  BY <1>17 DEF Constructed
<1>18. ASSUME NEW s \in Thread, RemoveGroup(s) PROVE Goal
  BY <1>18 DEF RemoveGroup
<1>19. ASSUME NEW s \in Thread, Destroyed(s) PROVE Goal
  BY <1>19 DEF Destroyed
<1>20. ASSUME NEW s \in Thread, ScanEvent(s) PROVE Goal
  BY <1>20 DEF ScanEvent
<1>21. ASSUME NEW s \in Thread, GroupSleep(s) PROVE Goal
  BY <1>21 DEF GroupSleep
<1>22. ASSUME NEW s \in Thread, GroupAgain(s) PROVE Goal
  BY <1>22 DEF GroupAgain
<1>23. ASSUME NEW s \in Thread, GroupFound(s) PROVE Goal
  BY <1>23 DEF GroupFound, GroupLeave
<1>24. ASSUME NEW s \in Thread, GroupTold(s) PROVE Goal
  BY <1>24 DEF GroupTold, GroupLeave
<1>25. ASSUME NEW d \in Event, Reset(d) PROVE Goal
  BY <1>25 DEF Reset
<1>26. CASE UNCHANGED vars
  BY <1>26 DEF vars
<1> HIDE DEF Goal
<1> QED BY <1>1, <1>2, <1>3, <1>4, <1>5, <1>6, <1>7, <1>8, <1>9, <1>10, <1>11, <1>12, <1>13, <1>14, <1>15, <1>16, <1>17, <1>18, <1>19, <1>20, <1>21, <1>22, <1>23, <1>24, <1>25, <1>26 DEF Goal, Next, Progress

(* A Set() that begins is on its way to every group.                       *)
LEMMA ToldAtOnce ==
  ASSUME IInv, NEW u \in Thread, NEW e \in Event, SetFlag(u, e), NEW g
  PROVE  ToBeTold(g, e)'
BY DEF SetFlag, Enter, ToBeTold, IInv, TypeInv

(* A wait() that begins has all of its events to look at.                  *)
LEMMA ScannedAtOnce ==
  ASSUME IInv, NEW u \in Thread, NEW g \in Group, GroupWait(u, g),
         NEW e \in Event, Contains(Members[g], e)
  PROVE  ToBeScanned(g, e)'
BY DEF GroupWait, Enter, ToBeScanned, IInv, TypeInv

(* A Set() stays on its way to a live group until it tells it.             *)
LEMMA ToldStep ==
  ASSUME IInv, [Next]_vars, NEW g \in Group, NEW e \in Event, ToBeTold(g, e),
         gstate[g] = "live", Contains(Members[g], e)
  PROVE  \/ ToBeTold(g, e)'
                    \/ \E t \in Thread : TellGroup(t) /\ on[t] = e /\ Head(todo[t]) = g
<1> DEFINE Goal == \/ ToBeTold(g, e)'
                    \/ \E t \in Thread : TellGroup(t) /\ on[t] = e /\ Head(todo[t]) = g
<1> USE EventAssumption DEF EventAssumption, IInv, TypeInv, PlaceInv, OnEvent, OnGroup, Counted, GCounted,
      Enter, Goto, eventVars, groupVars, threadVars, Thread, ToBeTold, ListInv
<1>1. ASSUME NEW s \in Thread, NEW d \in Event, SetFlag(s, d) PROVE Goal
  BY <1>1 DEF SetFlag
<1>2. ASSUME NEW s \in Thread, NEW d \in Event, WaitSignaled(s, d) PROVE Goal
  BY <1>2 DEF WaitSignaled
<1>3. ASSUME NEW s \in Thread, NEW d \in Event, WaitSleep(s, d) PROVE Goal
  BY <1>3 DEF WaitSleep
<1>4. ASSUME NEW s \in Thread, NEW h \in Group, Construct(s, h) PROVE Goal
  BY <1>4 DEF Construct
<1>5. ASSUME NEW s \in Thread, NEW h \in Group, Destroy(s, h) PROVE Goal
  BY <1>5 DEF Destroy
<1>6. ASSUME NEW s \in Thread, NEW h \in Group, GroupWait(s, h) PROVE Goal
  BY <1>6 DEF GroupWait
<1>7. ASSUME NEW s \in Thread, Stir(s) PROVE Goal
  <2>1. PICK u \in Setter : /\ on[u] = e
                           /\ \/ pc[u] \in {"notify", "list"}
                              \/ pc[u] = "tell" /\ Contains(todo[u], g)
    BY DEF ToBeTold
  <2>2. pc'[u] = pc[u] /\ on' = on /\ todo' = todo
    BY <1>7, <2>1 DEF Stir
  <2> QED BY <2>1, <2>2
<1>8. ASSUME NEW s \in Thread, WaitTimeOut(s) PROVE Goal
  BY <1>8 DEF WaitTimeOut
<1>9. ASSUME NEW s \in Thread, GroupTimeOut(s) PROVE Goal
  BY <1>9 DEF GroupTimeOut, GroupLeave
<1>10. ASSUME NEW s \in Thread, Notify(s) PROVE Goal
  BY <1>10 DEF Notify
<1>11. ASSUME NEW s \in Thread, LockList(s) PROVE Goal
  <2>1. PICK u \in Setter : /\ on[u] = e
                           /\ \/ pc[u] \in {"notify", "list"}
                              \/ pc[u] = "tell" /\ Contains(todo[u], g)
    BY DEF ToBeTold
  <2>2. CASE u = s
    <3>1. pc'[s] = "tell" /\ on'[s] = e /\ todo'[s] = groups[e]
      BY <1>11, <2>1, <2>2 DEF LockList
    <3>2. Contains(groups[e], g)
      BY DEF ListedInv
    <3> QED BY <2>1, <2>2, <3>1, <3>2
  <2>3. CASE u # s
    <3>1. pc'[u] = pc[u] /\ on'[u] = on[u] /\ todo'[u] = todo[u]
      BY <1>11, <2>1, <2>3 DEF LockList
    <3> QED BY <2>1, <3>1
  <2> QED BY <2>2, <2>3
<1>12. ASSUME NEW s \in Thread, TellGroup(s) PROVE Goal
  <2>1. PICK u \in Setter : /\ on[u] = e
                           /\ \/ pc[u] \in {"notify", "list"}
                              \/ pc[u] = "tell" /\ Contains(todo[u], g)
    BY DEF ToBeTold
  <2>2. CASE u = s
    <3>1. todo[s] \in Seq(Group) /\ todo[s] # <<>>
      BY <1>12, <2>1 DEF TellGroup
    <3>2. Contains(todo[s], g) => g = Head(todo[s]) \/ Contains(Tail(todo[s]), g)
      BY <3>1, ContainsTail
    <3>3. pc'[s] = "tell" /\ on' = on /\ todo'[s] = Tail(todo[s])
      BY <1>12 DEF TellGroup
    <3> QED BY <1>12, <2>1, <2>2, <3>2, <3>3 DEF TellGroup
  <2>3. CASE u # s
    <3>1. pc'[u] = pc[u] /\ on' = on /\ todo'[u] = todo[u]
      BY <1>12, <2>1, <2>3 DEF TellGroup
    <3> QED BY <2>1, <3>1
  <2> QED BY <2>2, <2>3
<1>13. ASSUME NEW s \in Thread, SetReturn(s) PROVE Goal
  <2>1. PICK u \in Setter : /\ on[u] = e
                           /\ \/ pc[u] \in {"notify", "list"}
                              \/ pc[u] = "tell" /\ Contains(todo[u], g)
    BY DEF ToBeTold
  <2>2. u # s
    BY <1>13, <2>1, ContainsNothing DEF SetReturn
  <2>3. pc'[u] = pc[u] /\ on'[u] = on[u] /\ todo' = todo
    BY <1>13, <2>2 DEF SetReturn
  <2> QED BY <2>1, <2>3
<1>14. ASSUME NEW s \in Thread, WaitReturn(s) PROVE Goal
  BY <1>14 DEF WaitReturn
<1>15. ASSUME NEW s \in Thread, WaitAgain(s) PROVE Goal
  BY <1>15 DEF WaitAgain
<1>16. ASSUME NEW s \in Thread, AddGroup(s) PROVE Goal
  BY <1>16 DEF AddGroup
<1>17. ASSUME NEW s \in Thread, Constructed(s) PROVE Goal
  BY <1>17 DEF Constructed
<1>18. ASSUME NEW s \in Thread, RemoveGroup(s) PROVE Goal
  BY <1>18 DEF RemoveGroup
<1>19. ASSUME NEW s \in Thread, Destroyed(s) PROVE Goal
  BY <1>19 DEF Destroyed
<1>20. ASSUME NEW s \in Thread, ScanEvent(s) PROVE Goal
  BY <1>20 DEF ScanEvent
<1>21. ASSUME NEW s \in Thread, GroupSleep(s) PROVE Goal
  BY <1>21 DEF GroupSleep
<1>22. ASSUME NEW s \in Thread, GroupAgain(s) PROVE Goal
  BY <1>22 DEF GroupAgain
<1>23. ASSUME NEW s \in Thread, GroupFound(s) PROVE Goal
  BY <1>23 DEF GroupFound, GroupLeave
<1>24. ASSUME NEW s \in Thread, GroupTold(s) PROVE Goal
  BY <1>24 DEF GroupTold, GroupLeave
<1>25. ASSUME NEW d \in Event, Reset(d) PROVE Goal
  BY <1>25 DEF Reset
<1>26. CASE UNCHANGED vars
  BY <1>26 DEF vars
<1> HIDE DEF Goal
<1> QED BY <1>1, <1>2, <1>3, <1>4, <1>5, <1>6, <1>7, <1>8, <1>9, <1>10, <1>11, <1>12, <1>13, <1>14, <1>15, <1>16, <1>17, <1>18, <1>19, <1>20, <1>21, <1>22, <1>23, <1>24, <1>25, <1>26 DEF Goal, Next, Progress

(* An event to be looked at stays so until it is looked at.                *)
LEMMA ScannedStep ==
  ASSUME IInv, [Next]_vars, NEW g \in Group, NEW e \in Event, ToBeScanned(g, e)
  PROVE  \/ ToBeScanned(g, e)'
                    \/ \E t \in Thread : ScanEvent(t) /\ on[t] = g /\ Head(todo[t]) = e
<1> DEFINE Goal == \/ ToBeScanned(g, e)'
                    \/ \E t \in Thread : ScanEvent(t) /\ on[t] = g /\ Head(todo[t]) = e
<1> USE EventAssumption DEF EventAssumption, IInv, TypeInv, PlaceInv, OnEvent, OnGroup, Counted, GCounted,
      Enter, Goto, eventVars, groupVars, threadVars, Thread, ToBeScanned
<1>1. ASSUME NEW s \in Thread, NEW d \in Event, SetFlag(s, d) PROVE Goal
  BY <1>1 DEF SetFlag
<1>2. ASSUME NEW s \in Thread, NEW d \in Event, WaitSignaled(s, d) PROVE Goal
  BY <1>2 DEF WaitSignaled
<1>3. ASSUME NEW s \in Thread, NEW d \in Event, WaitSleep(s, d) PROVE Goal
  BY <1>3 DEF WaitSleep
<1>4. ASSUME NEW s \in Thread, NEW h \in Group, Construct(s, h) PROVE Goal
  BY <1>4 DEF Construct
<1>5. ASSUME NEW s \in Thread, NEW h \in Group, Destroy(s, h) PROVE Goal
  BY <1>5 DEF Destroy
<1>6. ASSUME NEW s \in Thread, NEW h \in Group, GroupWait(s, h) PROVE Goal
  BY <1>6 DEF GroupWait
<1>7. ASSUME NEW s \in Thread, Stir(s) PROVE Goal
  BY <1>7 DEF Stir
<1>8. ASSUME NEW s \in Thread, WaitTimeOut(s) PROVE Goal
  BY <1>8 DEF WaitTimeOut
<1>9. ASSUME NEW s \in Thread, GroupTimeOut(s) PROVE Goal
  BY <1>9 DEF GroupTimeOut, GroupLeave
<1>10. ASSUME NEW s \in Thread, Notify(s) PROVE Goal
  BY <1>10 DEF Notify
<1>11. ASSUME NEW s \in Thread, LockList(s) PROVE Goal
  BY <1>11 DEF LockList
<1>12. ASSUME NEW s \in Thread, TellGroup(s) PROVE Goal
  BY <1>12 DEF TellGroup
<1>13. ASSUME NEW s \in Thread, SetReturn(s) PROVE Goal
  BY <1>13 DEF SetReturn
<1>14. ASSUME NEW s \in Thread, WaitReturn(s) PROVE Goal
  BY <1>14 DEF WaitReturn
<1>15. ASSUME NEW s \in Thread, WaitAgain(s) PROVE Goal
  BY <1>15 DEF WaitAgain
<1>16. ASSUME NEW s \in Thread, AddGroup(s) PROVE Goal
  BY <1>16 DEF AddGroup
<1>17. ASSUME NEW s \in Thread, Constructed(s) PROVE Goal
  BY <1>17 DEF Constructed
<1>18. ASSUME NEW s \in Thread, RemoveGroup(s) PROVE Goal
  BY <1>18 DEF RemoveGroup
<1>19. ASSUME NEW s \in Thread, Destroyed(s) PROVE Goal
  BY <1>19 DEF Destroyed
<1>20. ASSUME NEW s \in Thread, ScanEvent(s) PROVE Goal
  <2>1. PICK u \in Thread : pc[u] = "scan" /\ on[u] = g /\ Contains(todo[u], e)
    BY DEF ToBeScanned
  <2>2. CASE u = s
    <3>1. todo[s] \in Seq(Event) /\ todo[s] # <<>>
      BY <1>20 DEF ScanEvent
    <3>2. Contains(todo[s], e) => e = Head(todo[s]) \/ Contains(Tail(todo[s]), e)
      BY <3>1, ContainsTail
    <3>3. pc' = pc /\ on' = on /\ todo'[s] = Tail(todo[s])
      BY <1>20 DEF ScanEvent
    <3> QED BY <1>20, <2>1, <2>2, <3>2, <3>3
  <2>3. CASE u # s
    <3>1. pc' = pc /\ on' = on /\ todo'[u] = todo[u]
      BY <1>20, <2>3 DEF ScanEvent
    <3> QED BY <2>1, <3>1
  <2> QED BY <2>2, <2>3
<1>21. ASSUME NEW s \in Thread, GroupSleep(s) PROVE Goal
  <2>1. PICK u \in Thread : pc[u] = "scan" /\ on[u] = g /\ Contains(todo[u], e)
    BY DEF ToBeScanned
  <2>2. u # s
    BY <1>21, <2>1, ContainsNothing DEF GroupSleep
  <2>3. pc'[u] = pc[u] /\ on'[u] = on[u] /\ todo' = todo
    BY <1>21, <2>2 DEF GroupSleep
  <2> QED BY <2>1, <2>3
<1>22. ASSUME NEW s \in Thread, GroupAgain(s) PROVE Goal
  BY <1>22 DEF GroupAgain
<1>23. ASSUME NEW s \in Thread, GroupFound(s) PROVE Goal
  <2>1. PICK u \in Thread : pc[u] = "scan" /\ on[u] = g /\ Contains(todo[u], e)
    BY DEF ToBeScanned
  <2>2. u # s
    BY <1>23, <2>1, ContainsNothing DEF GroupFound
  <2>3. pc'[u] = pc[u] /\ on'[u] = on[u] /\ todo' = todo
    BY <1>23, <2>2 DEF GroupFound, GroupLeave
  <2> QED BY <2>1, <2>3
<1>24. ASSUME NEW s \in Thread, GroupTold(s) PROVE Goal
  BY <1>24 DEF GroupTold, GroupLeave
<1>25. ASSUME NEW d \in Event, Reset(d) PROVE Goal
  BY <1>25 DEF Reset
<1>26. CASE UNCHANGED vars
  BY <1>26 DEF vars
<1> HIDE DEF Goal
<1> QED BY <1>1, <1>2, <1>3, <1>4, <1>5, <1>6, <1>7, <1>8, <1>9, <1>10, <1>11, <1>12, <1>13, <1>14, <1>15, <1>16, <1>17, <1>18, <1>19, <1>20, <1>21, <1>22, <1>23, <1>24, <1>25, <1>26 DEF Goal, Next, Progress

(* While the flag is clear, no signal is forgotten: a Set() that tells the *)
(* group and a look at the event both raise the flag.                      *)
LEMMA FlagStep ==
  ASSUME IInv, [Next]_vars
  PROVE  FlagInv'
<1> SUFFICES ASSUME NEW t \in Thread, pc'[t] \in GCounted, gsignaled'[on'[t]] = NULL,
                    NEW e \in Event, Contains(Members[on'[t]], e), signaled'[e]
             PROVE  ToBeTold(on[t], e)' \/ ToBeScanned(on[t], e)'
  BY DEF FlagInv
<1>1. PICK g \in Group : g = on'[t]
  BY PlaceStep DEF PlaceInv, GCounted, OnGroup
<1>2. SUFFICES ToBeTold(g, e)' \/ ToBeScanned(g, e)'
  BY <1>1 DEF ToBeTold, ToBeScanned
<1>3. CASE \E u \in Thread : SetFlag(u, e)
  BY <1>3, ToldAtOnce
<1>4. CASE \E u \in Thread : GroupWait(u, g)
  BY <1>1, <1>4, ScannedAtOnce
<1>5. CASE signaled[e] /\ pc[t] \in GCounted /\ g = on[t] /\ gsignaled[on[t]] = NULL
  <2>1. gstate[g] = "live" /\ (ToBeTold(g, e) \/ ToBeScanned(g, e))
    BY <1>1, <1>5 DEF IInv, LifeInv, FlagInv
  <2>2. gsignaled'[g] # e
    BY <1>1, EventAssumption DEF EventAssumption
  <2>3. CASE ToBeTold(g, e)
    <3>1. ASSUME NEW u \in Thread, TellGroup(u), on[u] = e, Head(todo[u]) = g PROVE FALSE
      BY <3>1, <2>2 DEF TellGroup, IInv, TypeInv
    <3> QED BY <1>1, <2>1, <2>3, <3>1, ToldStep
  <2>4. CASE ToBeScanned(g, e)
    <3>1. ASSUME NEW u \in Thread, ScanEvent(u), on[u] = g, Head(todo[u]) = e PROVE FALSE
      BY <3>1, <2>2, <1>5 DEF ScanEvent, IInv, TypeInv
    <3> QED BY <2>4, <3>1, ScannedStep
  <2> QED BY <2>1, <2>3, <2>4
<1>6. signaled[e] \/ \E u \in Thread : SetFlag(u, e)
  BY SignalStep
<1>7. \/ pc[t] \in GCounted /\ g = on[t] /\ gsignaled[on[t]] = NULL
      \/ \E u \in Thread : GroupWait(u, g)
  BY <1>1, FlagCleared
<1> QED BY <1>3, <1>4, <1>5, <1>6, <1>7

(* Who goes to sleep has been through all the events and holds the mutex   *)
(* until he sleeps, or finds it free: nothing is left to be looked at, so  *)
(* that every signal is on its way.                                        *)
LEMMA GroupWakeupStep ==
  ASSUME IInv, [Next]_vars
  PROVE  NoMissedGroupWakeup'
<1> SUFFICES ASSUME NEW t \in Thread, pc'[t] = "gasleep",
                    NEW e \in Event, Contains(Members[on'[t]], e), signaled'[e]
             PROVE  ToBeTold(on[t], e)'
  BY DEF NoMissedGroupWakeup
<1>1. on'[t] = on[t] /\ (pc[t] = "gasleep" \/ GroupSleep(t) \/ GroupAgain(t))
  BY FallsAsleep
<1>2. on[t] \in Group /\ pc[t] \in GCounted /\ gstate[on[t]] = "live"
  BY <1>1 DEF GroupSleep, GroupAgain, GCounted, OnGroup, IInv, PlaceInv, LifeInv
<1>3. PICK g \in Group : g = on[t]
  BY <1>2
<1>4. SUFFICES ToBeTold(g, e)'
  BY <1>1, <1>3 DEF ToBeTold
<1>5. CASE \E u \in Thread : SetFlag(u, e)
  BY <1>5, ToldAtOnce
<1>6. CASE signaled[e]
  <2>1. ToBeTold(g, e)
    <3>1. CASE pc[t] = "gasleep"
      BY <1>1, <1>3, <1>6, <3>1 DEF IInv, NoMissedGroupWakeup
    <3>2. CASE pc[t] # "gasleep"
      <4>1. gsignaled[g] = NULL /\ (gOwner[g] = NULL \/ (gOwner[g] = t /\ todo[t] = <<>>))
        <5>1. CASE GroupSleep(t)
          BY <1>3, <5>1 DEF GroupSleep, IInv, LockInv
        <5>2. CASE GroupAgain(t)
          <6>1. gOwner[on[t]] = NULL /\ gsignaled[on[t]] = NULL
            BY <5>2 DEF GroupAgain
          <6> QED BY <1>3, <6>1
        <5> QED BY <1>1, <3>2, <5>1, <5>2
      <4>2. ASSUME NEW u \in Thread, pc[u] = "scan", on[u] = g, Contains(todo[u], e) PROVE FALSE
        <5>1. gOwner[g] = u /\ u # NULL
          BY <4>2, EventAssumption DEF IInv, LockInv, EventAssumption
        <5>2. u = t /\ todo[u] = <<>>
          BY <4>1, <5>1
        <5> QED BY <4>2, <5>2, ContainsNothing
      <4>3. ~ToBeScanned(g, e)
        BY <4>2 DEF ToBeScanned
      <4> QED BY <1>1, <1>2, <1>3, <1>6, <4>1, <4>3 DEF IInv, FlagInv
    <3> QED BY <3>1, <3>2
  <2>2. ASSUME NEW u \in Thread, TellGroup(u), on[u] = e, Head(todo[u]) = g PROVE FALSE
    <3>1. CASE pc[t] = "gasleep"
      <4>1. pc'[t] = "gwoken"
        BY <1>3, <2>2, <3>1 DEF TellGroup
      <4> QED BY <4>1
    <3>2. CASE GroupSleep(t) \/ GroupAgain(t)
      BY <2>2, <3>2 DEF TellGroup, GroupSleep, GroupAgain, Goto, IInv, TypeInv
    <3> QED BY <1>1, <3>1, <3>2
  <2> QED BY <1>1, <1>2, <1>3, <2>1, <2>2, ToldStep
<1>7. signaled[e] \/ \E u \in Thread : SetFlag(u, e)
  BY SignalStep
<1> QED BY <1>5, <1>6, <1>7

-----------------------------------------------------------------------------
(* No thread is in any object, and no list has any group.                  *)
LEMMA InitIInv == Init => IInv
<1> SUFFICES ASSUME Init PROVE IInv
  OBVIOUS
<1>1. \A x : ~Contains(<<>>, x)
  BY ContainsNothing
<1>2. TypeInv /\ PlaceInv /\ LockInv /\ LifeInv
  BY EmptySeq DEF Init, TypeInv, PlaceInv, LockInv, LifeInv, OnEvent, OnGroup, Counted, GCounted, ThreadStates
<1>3. CountInv
  <2>1. \A e \in Event : WaitersOf(e) = {}
    BY DEF Init, WaitersOf, Counted, Thread
  <2>2. \A g \in Group : GroupWaitersOf(g) = {}
    BY DEF Init, GroupWaitersOf, GCounted, Thread
  <2> QED BY <2>1, <2>2, FS_EmptySet DEF Init, CountInv
<1>4. ListInv
  BY <1>1 DEF Init, ListInv, ListedInv, LoopInv, TellInv
<1>5. FlagInv /\ NoMissedWakeup /\ NoMissedGroupWakeup
  BY DEF Init, FlagInv, NoMissedWakeup, NoMissedGroupWakeup, GCounted
<1> QED BY <1>2, <1>3, <1>4, <1>5 DEF IInv

(* The invariant holds for any events, groups and threads.                 *)
THEOREM EventInvariance == Spec => []IInv
<1>1. IInv /\ [Next]_vars => IInv'
  BY TypeStep, PlaceStep, LockStep, CountStep, LifeStep, ListStep, FlagStep,
     WakeupStep, GroupWakeupStep DEF IInv
<1> QED BY InitIInv, <1>1, PTL DEF Spec

(* The types, and that numWaits of CEvent and CEventGroup never falls      *)
(* below zero nor counts more threads than there are.                      *)
THEOREM EventTypesHold == Spec => []TypeOK
<1>1. IInv => TypeOK
  <2> SUFFICES ASSUME IInv PROVE TypeOK
    OBVIOUS
  <2>1. waits \in [Event -> 0 .. Cardinality(Waiter)]
    BY WaitersFinite DEF IInv, TypeInv, CountInv
  <2>2. gwaits \in [Group -> 0 .. Cardinality(GroupWaiter)]
    BY WaitersFinite DEF IInv, TypeInv, CountInv
  <2> QED BY <2>1, <2>2 DEF IInv, TypeInv, TypeOK
<1> QED BY <1>1, EventInvariance, PTL

(* Nobody is left in the condition variable of a signaled event unless the *)
(* notifyAll of a Set() is still to come, however many threads set, reset, *)
(* wait and time out.                                                      *)
THEOREM NoWakeupIsMissed == Spec => []NoMissedWakeup
<1>1. IInv => NoMissedWakeup
  BY DEF IInv
<1> QED BY <1>1, EventInvariance, PTL

(* Nobody sleeps in a group one of whose events is signaled unless a Set() *)
(* on its way is going to tell it, for any number of groups over any       *)
(* events and of threads in one group.                                     *)
THEOREM NoGroupWakeupIsMissed == Spec => []NoMissedGroupWakeup
<1>1. IInv => NoMissedGroupWakeup
  BY DEF IInv
<1> QED BY <1>1, EventInvariance, PTL

(* The loop of Set() only reaches groups that exist.                       *)
THEOREM GroupsOutliveSet == Spec => []GroupOutlivesSet
<1>1. IInv => GroupOutlivesSet
  BY DEF IInv, ListInv, ListedInv, TellInv, PlaceInv, OnEvent, GroupOutlivesSet, Thread
<1> QED BY <1>1, EventInvariance, PTL

-----------------------------------------------------------------------------
(* No deadlock                                                             *)

(* Who holds a mutex across steps is in the loop it is held for.           *)
HeldInv ==
  \A t \in Thread :
    /\ \A e \in Event : listOwner[e] = t => pc[t] = "tell" /\ on[t] = e
    /\ \A g \in Group : gOwner[g] = t => pc[t] = "scan" /\ on[t] = g

(* A step that takes no mutex, and nobody out of such a loop.              *)
LEMMA HeldFrame ==
  ASSUME HeldInv, UNCHANGED <<listOwner, gOwner>>,
         \A u \in Thread : pc[u] \in {"tell", "scan"} => pc'[u] = pc[u] /\ on'[u] = on[u]
  PROVE  HeldInv'
BY DEF HeldInv

(* A step of t that takes and leaves mutexes as it enters and leaves them. *)
LEMMA HeldStep ==
  ASSUME IInv, HeldInv, [Next]_vars
  PROVE  HeldInv'
<1>1. /\ pc \in [Thread -> ThreadStates] /\ on \in [Thread -> Event \cup Group \cup {NULL}]
      /\ listOwner \in [Event -> Thread \cup {NULL}] /\ gOwner \in [Group -> Thread \cup {NULL}]
      /\ NULL \notin Thread /\ Setter \subseteq Thread /\ Waiter \subseteq Thread
      /\ GroupWaiter \subseteq Thread /\ PlaceInv
  BY EventAssumption DEF IInv, TypeInv, Thread
<1>2. ASSUME NEW t \in Thread, UNCHANGED <<listOwner, gOwner>>, pc[t] \notin {"tell", "scan"},
             \A u \in Thread \ {t} : pc[u] \in {"tell", "scan"} => pc'[u] = pc[u] /\ on'[u] = on[u]
      PROVE  HeldInv'
  BY <1>2, HeldFrame
<1>3. ASSUME NEW t \in Thread, NEW e \in Event,
             SetFlag(t, e) \/ WaitSignaled(t, e) \/ WaitSleep(t, e)
      PROVE  HeldInv'
  <2>1. CASE WaitSignaled(t, e)
    BY <2>1, HeldFrame DEF WaitSignaled, groupVars, threadVars
  <2>2. CASE SetFlag(t, e) \/ WaitSleep(t, e)
    BY <1>1, <1>2, <2>2 DEF SetFlag, WaitSleep, Enter, groupVars
  <2> QED BY <1>3, <2>1, <2>2
<1>4. ASSUME NEW t \in Thread, NEW g \in Group, Construct(t, g) \/ Destroy(t, g)
      PROVE  HeldInv'
  BY <1>1, <1>2, <1>4 DEF Construct, Destroy, Enter, eventVars
<1>5. ASSUME NEW t \in Thread, Stir(t) \/ WaitTimeOut(t) \/ WaitReturn(t) \/ WaitAgain(t)
      PROVE  HeldInv'
  <2>1. CASE Stir(t) \/ WaitAgain(t)
    BY <1>1, <1>2, <2>1 DEF Stir, WaitAgain, Goto, groupVars, eventVars
  <2>2. CASE WaitTimeOut(t) \/ WaitReturn(t)
    BY <1>1, <1>2, <2>2 DEF WaitTimeOut, WaitReturn, Goto, groupVars, eventVars
  <2> QED BY <1>5, <2>1, <2>2
<1>6. ASSUME NEW t \in Thread, AddGroup(t) \/ Constructed(t) \/ RemoveGroup(t) \/ Destroyed(t)
      PROVE  HeldInv'
  <2>1. CASE AddGroup(t) \/ RemoveGroup(t)
    BY <2>1, HeldFrame DEF AddGroup, RemoveGroup, groupVars
  <2>2. CASE Constructed(t) \/ Destroyed(t)
    BY <1>1, <1>2, <2>2 DEF Constructed, Destroyed, Goto, eventVars
  <2> QED BY <1>6, <2>1, <2>2
<1>7. ASSUME NEW t \in Thread, Notify(t) \/ TellGroup(t) \/ ScanEvent(t) \/ GroupAgain(t)
      PROVE  HeldInv'
  <2>1. CASE Notify(t)
    BY <1>1, <1>2, <2>1 DEF Notify, eventVars, groupVars
  <2>2. CASE TellGroup(t)
    <3>1. \A u \in Thread : pc'[u] = pc[u] \/ pc[u] = "gasleep"
      BY <1>1, <2>2 DEF TellGroup
    <3> QED BY <2>2, <3>1, HeldFrame DEF TellGroup, eventVars
  <2>3. CASE ScanEvent(t)
    BY <2>3, HeldFrame DEF ScanEvent, eventVars
  <2>4. CASE GroupAgain(t)
    BY <1>1, <1>2, <2>4 DEF GroupAgain, Goto, eventVars, groupVars
  <2> QED BY <1>7, <2>1, <2>2, <2>3, <2>4
<1>8. ASSUME NEW t \in Thread, LockList(t) PROVE HeldInv'
  <2>1. on[t] \in Event /\ pc[t] = "list"
    BY <1>1, <1>8 DEF LockList, PlaceInv, OnEvent
  <2>2. /\ listOwner' = [listOwner EXCEPT ![on[t]] = t] /\ pc' = [pc EXCEPT ![t] = "tell"]
        /\ on' = on /\ gOwner' = gOwner
    BY <1>8 DEF LockList, Goto, groupVars
  <2> QED BY <1>1, <2>1, <2>2 DEF HeldInv
<1>9. ASSUME NEW t \in Thread, SetReturn(t) PROVE HeldInv'
  <2>1. on[t] \in Event /\ pc[t] = "tell"
    BY <1>1, <1>9 DEF SetReturn, PlaceInv, OnEvent
  <2>2. /\ listOwner' = [listOwner EXCEPT ![on[t]] = NULL] /\ pc' = [pc EXCEPT ![t] = "idle"]
        /\ on' = [on EXCEPT ![t] = NULL] /\ gOwner' = gOwner
    BY <1>9 DEF SetReturn, Goto, groupVars
  <2> QED BY <1>1, <2>1, <2>2 DEF HeldInv
<1>10. ASSUME NEW t \in Thread, NEW g \in Group, GroupWait(t, g) PROVE HeldInv'
  <2>1. /\ gOwner' = [gOwner EXCEPT ![g] = t] /\ pc' = [pc EXCEPT ![t] = "scan"]
        /\ on' = [on EXCEPT ![t] = g] /\ listOwner' = listOwner /\ pc[t] = "idle"
    BY <1>10 DEF GroupWait, Enter, eventVars
  <2> QED BY <1>1, <2>1 DEF HeldInv
<1>11. ASSUME NEW t \in Thread, GroupSleep(t) \/ GroupFound(t) \/ GroupTold(t) \/ GroupTimeOut(t)
       PROVE  HeldInv'
  <2>1. on[t] \in Group /\ pc[t] \in {"scan", "gwoken"}
    BY <1>1, <1>11 DEF GroupSleep, GroupFound, GroupTold, GroupTimeOut, PlaceInv, OnGroup
  <2>2. /\ gOwner' = [gOwner EXCEPT ![on[t]] = NULL] /\ listOwner' = listOwner
        /\ \A u \in Thread \ {t} : pc'[u] = pc[u] /\ on'[u] = on[u]
    BY <1>1, <1>11 DEF GroupSleep, GroupFound, GroupTold, GroupTimeOut, GroupLeave, Goto, eventVars
  <2> QED BY <1>1, <2>1, <2>2 DEF HeldInv
<1>12. CASE UNCHANGED vars \/ \E e \in Event : Reset(e)
  BY <1>12, HeldFrame DEF vars, Reset, eventVars, groupVars, threadVars
<1> QED BY <1>3, <1>4, <1>5, <1>6, <1>7, <1>8, <1>9, <1>10, <1>11, <1>12 DEF Next, Progress

(* Thread t, inside an operation, waits for a mutex that u holds: that of  *)
(* an event's list of groups, or a group's.                                *)
WaitsFor(t, u) ==
  \/ pc[t] = "list" /\ listOwner[on[t]] = u
  \/ pc[t] \in {"build", "destroy"} /\ todo[t] # <<>> /\ listOwner[Head(todo[t])] = u
  \/ pc[t] = "tell" /\ todo[t] # <<>> /\ gOwner[Head(todo[t])] = u
  \/ pc[t] = "gwoken" /\ gOwner[on[t]] = u

(* A mutex that somebody waits for is held by a thread that waits for      *)
(* none, or that waits for one that does not: a Set() among the groups of  *)
(* an event, or a wait() among the events of a group.                      *)
MutexesAreLeft ==
  \A t, u \in Thread : WaitsFor(t, u) =>
    \E v \in Thread : /\ v = u \/ WaitsFor(u, v)
                      /\ pc[v] \in {"tell", "scan"}
                      /\ \A x \in Thread : ~WaitsFor(v, x)

(* "Locking is ALWAYS done in this order": the safety half of SetReturns.  *)
(* However many events share a group and groups an event, and whoever sets *)
(* them, waits for, builds and destroys them, nobody waits in a circle.    *)
THEOREM MutexesAreLeftInOrder == Spec => []MutexesAreLeft
<1>1. IInv /\ HeldInv => MutexesAreLeft
  <2> SUFFICES ASSUME IInv, HeldInv, NEW t \in Thread, NEW u \in Thread, WaitsFor(t, u)
               PROVE  \E v \in Thread : /\ v = u \/ WaitsFor(u, v)
                                        /\ pc[v] \in {"tell", "scan"}
                                        /\ \A x \in Thread : ~WaitsFor(v, x)
    BY DEF MutexesAreLeft
  <2>1. ASSUME NEW v \in Thread, pc[v] \in {"scan"} PROVE \A x \in Thread : ~WaitsFor(v, x)
    BY <2>1 DEF WaitsFor
  <2>2. pc[u] \in {"tell", "scan"}
    <3>1. CASE pc[t] \in {"list", "build", "destroy"}
      <4>1. PICK e \in Event : listOwner[e] = u
        BY <3>1, ContainsTail DEF WaitsFor, IInv, PlaceInv, OnEvent
      <4> QED BY <4>1 DEF HeldInv
    <3>2. CASE pc[t] \in {"tell", "gwoken"}
      <4>1. PICK g \in Group : gOwner[g] = u
        BY <3>2, ContainsTail DEF WaitsFor, IInv, PlaceInv, OnGroup
      <4> QED BY <4>1 DEF HeldInv
    <3> QED BY <3>1, <3>2 DEF WaitsFor
  <2>3. ASSUME NEW v \in Thread, pc[u] = "tell", WaitsFor(u, v) PROVE pc[v] = "scan"
    <3>1. PICK g \in Group : gOwner[g] = v
      BY <2>3, ContainsTail DEF WaitsFor, IInv, PlaceInv
    <3> QED BY <3>1 DEF HeldInv
  <2>4. CASE \E v \in Thread : WaitsFor(u, v)
    BY <2>1, <2>2, <2>3, <2>4
  <2> QED BY <2>1, <2>2, <2>4
<1>2. Init => HeldInv
  BY EventAssumption DEF Init, HeldInv
<1> QED BY <1>1, <1>2, HeldStep, EventInvariance, PTL DEF Spec
=============================================================================
