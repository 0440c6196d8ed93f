---------------------------- MODULE PlanTheorems ----------------------------
(***************************************************************************)
(* Plans, as modules Instance and DataPlane have them: a reconcile makes   *)
(* the call at the head and goes on with the tail.                         *)
(***************************************************************************)
EXTENDS SequenceTheorems, TLAPS

(* A call is ahead of a reconcile that has this plan. *)
Ahead(p, c) == \E i \in 1 .. Len(p) : p[i] = c

(* What is left of a plan. *)
LEMMA Plans ==
    ASSUME NEW S, NEW p \in Seq(S), p # <<>>
    PROVE  /\ Head(p) \in S /\ Head(p) = p[1] /\ Tail(p) \in Seq(S)
           /\ Len(p) \in Nat /\ Len(p) >= 1 /\ Len(Tail(p)) = Len(p) - 1
           /\ \A i \in 1 .. Len(Tail(p)) : Tail(p)[i] = p[i + 1]
           /\ Tail(p) = <<>> <=> Len(p) = 1
  <1>1. Len(p) \in Nat /\ Len(p) >= 1 /\ Head(p) = p[1]
    OBVIOUS
  <1>2. /\ Head(p) \in S
        /\ Tail(p) \in Seq(S)
        /\ Len(Tail(p)) = Len(p) - 1
        /\ \A i \in 1 .. Len(Tail(p)) : Tail(p)[i] = p[i + 1]
    BY HeadTailProperties
  <1>3. Tail(p) = <<>> <=> Len(Tail(p)) = 0
    BY <1>2, EmptySeq
  <1> QED
    BY <1>1, <1>2, <1>3

LEMMA TailShorter ==
    ASSUME NEW S, NEW p \in Seq(S), p # <<>>
    PROVE  Tail(p) # p
  <1> SUFFICES ASSUME Tail(p) = p PROVE FALSE
    OBVIOUS
  <1>1. Len(p) \in Nat /\ Len(Tail(p)) = Len(p) - 1
    BY Plans
  <1> QED
    BY <1>1

(* What is ahead is next, or stays ahead. *)
LEMMA AheadTail ==
    ASSUME NEW S, NEW p \in Seq(S), p # <<>>, NEW c
    PROVE  Ahead(p, c) <=> c = Head(p) \/ Ahead(Tail(p), c)
  <1>1. /\ Head(p) = p[1] /\ Len(p) \in Nat /\ Len(p) >= 1 /\ Len(Tail(p)) = Len(p) - 1
        /\ \A i \in 1 .. Len(Tail(p)) : Tail(p)[i] = p[i + 1]
    BY Plans
  <1>2. ASSUME NEW i \in 1 .. Len(p), p[i] = c PROVE c = Head(p) \/ Ahead(Tail(p), c)
    <2>1. CASE i = 1
      BY <1>1, <1>2, <2>1
    <2>2. CASE i # 1
      <3>1. i - 1 \in 1 .. Len(Tail(p)) /\ Tail(p)[i - 1] = p[i]
        BY <1>1, <2>2
      <3> QED
        BY <1>2, <3>1 DEF Ahead
    <2> QED
      BY <2>1, <2>2
  <1>3. ASSUME NEW i \in 1 .. Len(Tail(p)), Tail(p)[i] = c PROVE Ahead(p, c)
    <2>1. i + 1 \in 1 .. Len(p) /\ p[i + 1] = c
      BY <1>1, <1>3
    <2> QED
      BY <2>1 DEF Ahead
  <1>4. c = Head(p) => Ahead(p, c)
    BY <1>1 DEF Ahead
  <1> QED
    BY <1>2, <1>3, <1>4 DEF Ahead

=============================================================================
