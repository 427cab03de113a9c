------------------------- MODULE PetitionFateProofs -------------------------
(***************************************************************************)
(* The fates of petitions, for any number of petitions, requests, signers  *)
(* and workers, any threshold and any number of faults: no petition has    *)
(* two fates, no fate is announced that was taken back or published twice, *)
(* and operations that do not overlap write nothing stale and keep fates.  *)
(***************************************************************************)
EXTENDS PetitionProofs

Withdrawn  == {"emit", "rollback"}
AckDecided == {"emit", "rollback", "ack_event"}
RefDecided == {"ref_job", "ref_event"}
Publishing == AckDecided \cup RefDecided

(***************************************************************************)
(* The decisions that may stand of a petition in state s.                  *)
(***************************************************************************)
ShapeOf(s, F) ==
  \/ s \notin Fates /\ F = {}
  \/ \E x : s \in {"ACKNOWLEDGED", "REFERRED", "ESCALATED"} /\ F = {<<x, s>>}
  \/ \E x, y : s = "ACKNOWLEDGED" /\ F = {<<x, "REFERRED">>, <<y, "ACKNOWLEDGED">>}

Shape == \A p \in Petitions : ~stale[p] => ShapeOf(state[p], fates[p])

(***************************************************************************)
(* A withdrawal that is not over is the only decision on its petition.     *)
(***************************************************************************)
Alone ==
  \A r \in Requests : pc[r] \in Withdrawn /\ ~stale[pet[r]]
                      => fates[pet[r]] = {<<r, "ACKNOWLEDGED">>}

(***************************************************************************)
(* A request announces with its last step, what is announced stands, and   *)
(* who is about to announce has decided.                                   *)
(***************************************************************************)
SpokenLast ==
  \A r \in Requests, p \in Petitions, f \in Fates : <<r, f>> \in announced[p] => pc[r] = "done"

Standing == \A p \in Petitions : announced[p] \subseteq fates[p]

Decided(a) ==
  /\ pc[a] \in AckDecided => <<a, "ACKNOWLEDGED">> \in fates[pet[a]]
  /\ pc[a] \in RefDecided => <<a, "REFERRED">> \in fates[pet[a]]

(***************************************************************************)
(* A standing decision is announced, about to be, or was cut off.          *)
(***************************************************************************)
OnTheWay(d, p) ==
  \E a \in Actors :
    /\ pet[a] = p
    /\ \/ d = <<a, "ACKNOWLEDGED">> /\ pc[a] \in AckDecided
       \/ d = <<a, "REFERRED">> /\ pc[a] \in RefDecided

Witnessed ==
  \A p \in Petitions : \A d \in fates[p] :
    d[2] # "ESCALATED" =>
      d \in announced[p] \/ OnTheWay(d, p) \/ dropped[p] \cap Publishing # {}

(***************************************************************************)
(* At most one actor has, or had, the stored acknowledgment of a petition. *)
(***************************************************************************)
Holder(a, p) ==
  /\ op[a] # "withdraw"
  /\ \/ pet[a] = p /\ pc[a] \in {"ack_write", "ack_event"}
     \/ <<a, "ACKNOWLEDGED">> \in announced[p]

OneHolder ==
  \A p \in Petitions : \A a, b \in Actors :
    /\ Holder(a, p) => ack[p] # "none"
    /\ Holder(a, p) /\ Holder(b, p) => a = b

FateInv ==
  /\ Shape /\ Alone /\ SpokenLast /\ Standing /\ Witnessed /\ OneHolder
  /\ \A a \in Actors : Decided(a)

Fated == <<ack, fates, announced>>

-----------------------------------------------------------------------------
(***************************************************************************)
(* The invariant says what the checked properties say.                     *)
(***************************************************************************)
LEMMA FateInvImplies ==
  PetitionInv /\ FateInv => SingleFate /\ FateWitnessed /\ OneAcknowledgment
<1> SUFFICES ASSUME PetitionInv, FateInv
             PROVE  SingleFate /\ FateWitnessed /\ OneAcknowledgment
  OBVIOUS
<1> USE DEF FateInv
<1>1. SingleFate
  <2> SUFFICES ASSUME NEW p \in Petitions, ~stale[p], ShapeOf(state[p], fates[p])
               PROVE  /\ state[p] \notin Fates => fates[p] = {}
                      /\ state[p] \in Fates => \E d \in fates[p] : d[2] = state[p]
                      /\ \A d, e \in fates[p] :
                           d # e => {d[2], e[2]} = {"REFERRED", "ACKNOWLEDGED"}
    BY DEF SingleFate, Shape
  <2>1. CASE state[p] \notin Fates /\ fates[p] = {}
    BY <2>1
  <2>2. ASSUME NEW x, state[p] \in Fates, fates[p] = {<<x, state[p]>>}
        PROVE  /\ \E d \in fates[p] : d[2] = state[p]
               /\ \A d, e \in fates[p] : d = e
    BY <2>2
  <2>3. ASSUME NEW x, NEW y, state[p] = "ACKNOWLEDGED",
               fates[p] = {<<x, "REFERRED">>, <<y, "ACKNOWLEDGED">>}
        PROVE  /\ \E d \in fates[p] : d[2] = state[p]
               /\ \A d, e \in fates[p] : d # e => {d[2], e[2]} = {"REFERRED", "ACKNOWLEDGED"}
    <3>1. <<y, "ACKNOWLEDGED">> \in fates[p] /\ <<y, "ACKNOWLEDGED">>[2] = "ACKNOWLEDGED"
      BY <2>3
    <3>2. ASSUME NEW d \in fates[p], NEW e \in fates[p], d # e
          PROVE  {d[2], e[2]} = {"REFERRED", "ACKNOWLEDGED"}
      <4>1. \/ d[2] = "REFERRED" /\ e[2] = "ACKNOWLEDGED"
            \/ e[2] = "REFERRED" /\ d[2] = "ACKNOWLEDGED"
        BY <2>3, <3>2
      <4> QED
        BY <4>1
    <3> QED
      BY <2>3, <3>1, <3>2
  <2>4. {"ACKNOWLEDGED", "REFERRED", "ESCALATED"} \subseteq Fates
    BY DEF Fates
  <2> QED
    BY <2>1, <2>2, <2>3, <2>4 DEF ShapeOf
<1>2. FateWitnessed
  <2> SUFFICES ASSUME NEW p \in Petitions, \A a \in Actors : Busy(a) => pet[a] # p,
                      dropped[p] \cap Publishing = {},
                      NEW d \in fates[p], d[2] # "ESCALATED"
               PROVE  d \in announced[p]
    BY DEF FateWitnessed, Standing, Publishing, AckDecided, RefDecided
  <2>1. ~OnTheWay(d, p)
    BY DEF OnTheWay, Busy, AckDecided, RefDecided
  <2> QED
    BY <2>1 DEF Witnessed
<1>3. OneAcknowledgment
  BY DEF OneAcknowledgment, OneHolder, Holder
<1> QED
  BY <1>1, <1>2, <1>3

LEMMA InitFate == Init => FateInv
<1> SUFFICES ASSUME Init PROVE FateInv
  OBVIOUS
<1>1. \A a \in Actors : pc[a] \in {"ready", "done"}
  BY DEF Init
<1>2. \A p \in Petitions :
        /\ state[p] \in {"none", "RECEIVED", "DELIBERATING", "REFERRED"}
        /\ fates[p] = IF state[p] = "REFERRED" THEN {<<"earlier", "REFERRED">>} ELSE {}
        /\ announced[p] = fates[p]
  BY DEF Init
<1>3. Shape
  <2> SUFFICES ASSUME NEW p \in Petitions PROVE ShapeOf(state[p], fates[p])
    BY DEF Shape
  <2>1. CASE state[p] = "REFERRED"
    <3>1. fates[p] = {<<"earlier", state[p]>>}
      BY <1>2, <2>1
    <3> QED
      BY <2>1, <3>1 DEF ShapeOf
  <2>2. CASE state[p] # "REFERRED"
    BY <1>2, <2>2 DEF ShapeOf, Fates
  <2> QED
    BY <2>1, <2>2
<1>4. Alone /\ \A a \in Actors : Decided(a)
  <2>1. \A a \in Actors : pc[a] \notin Withdrawn \cup AckDecided \cup RefDecided
    BY <1>1 DEF Withdrawn, AckDecided, RefDecided
  <2> QED
    BY <2>1 DEF Alone, Decided, Actors
<1>5. \A a \in Actors, p \in Petitions : \A f : <<a, f>> \notin announced[p]
  BY <1>2, PetitionAssumption DEF Actors
<1>6. SpokenLast /\ Standing /\ Witnessed /\ OneHolder
  BY <1>1, <1>2, <1>5 DEF SpokenLast, Standing, Witnessed, OneHolder, Holder, Actors
<1> QED
  BY <1>3, <1>4, <1>6 DEF FateInv

-----------------------------------------------------------------------------
(***************************************************************************)
(* A step beside the fates: actor a moves, a petition without a fate stays *)
(* so, and when a gives up what it had decided it is on record as cut off. *)
(***************************************************************************)
Aside(a) ==
  /\ UNCHANGED Fated
  /\ \A p \in Petitions :
       /\ stale[p] => stale'[p]
       /\ \/ stale'[p]
          \/ state'[p] = state[p]
          \/ state[p] \notin Fates /\ state'[p] \notin Fates
       /\ dropped[p] \subseteq dropped'[p]
  /\ \A b \in Actors \ {a} : pc'[b] = pc[b] /\ pet'[b] = pet[b] /\ op'[b] = op[b]
  /\ pc'[a] \notin Publishing \cup {"ack_write"}
  /\ a \in Requests => pc[a] # "done" \/ pc'[a] = "done"
  /\ pc[a] \in Publishing => pc[a] \in dropped'[pet[a]]
  /\ op'[a] = op[a] \/ pc[a] = "ready" \/ op[a] # "withdraw"

LEMMA AsideKeeps ==
  ASSUME PetitionInv, FateInv, NEW a \in Actors, Aside(a)
  PROVE  FateInv'
<1> USE DEF FateInv, Fated, Aside
<1>1. pc[a] = "ready" => a \in Requests
  BY DEF PetitionInv, Control, ActorFits, Actors
<1>2. Shape'
  <2> SUFFICES ASSUME NEW p \in Petitions, ~stale'[p] PROVE ShapeOf(state'[p], fates[p])
    BY DEF Shape
  <2>1. ShapeOf(state[p], fates[p])
    BY DEF Shape
  <2>2. CASE state'[p] = state[p]
    BY <2>1, <2>2
  <2>3. CASE state[p] \notin Fates /\ state'[p] \notin Fates
    BY <2>1, <2>3 DEF ShapeOf, Fates
  <2> QED
    BY <2>2, <2>3
<1>3. Standing' /\ Alone'
  <2>1. \A b \in Actors : pc'[b] \in Withdrawn => b # a
    BY DEF Publishing, AckDecided, Withdrawn
  <2>2. \A b \in Actors : pet[b] \in Petitions
    BY DEF PetitionInv, Control, ActorsTyped
  <2> QED
    BY <2>1, <2>2 DEF Standing, Alone, Actors
<1>4. SpokenLast'
  <2> SUFFICES ASSUME NEW r \in Requests, NEW p \in Petitions, NEW f \in Fates,
                      <<r, f>> \in announced[p]
               PROVE  pc'[r] = "done"
    BY DEF SpokenLast
  <2>1. pc[r] = "done"
    BY DEF SpokenLast
  <2> QED
    BY <2>1 DEF Actors
<1>5. \A b \in Actors : Decided(b)'
  BY DEF Decided, Publishing
<1>6. Witnessed'
  <2> SUFFICES ASSUME NEW p \in Petitions, NEW d \in fates[p], d[2] # "ESCALATED",
                      d \notin announced[p], dropped'[p] \cap Publishing = {}
               PROVE  OnTheWay(d, p)'
    BY DEF Witnessed
  <2>1. OnTheWay(d, p)
    BY DEF Witnessed
  <2>2. PICK b \in Actors :
          /\ pet[b] = p
          /\ \/ d = <<b, "ACKNOWLEDGED">> /\ pc[b] \in AckDecided
             \/ d = <<b, "REFERRED">> /\ pc[b] \in RefDecided
    BY <2>1 DEF OnTheWay
  <2>3. b # a
    BY <2>2 DEF Publishing
  <2> QED
    BY <2>2, <2>3 DEF OnTheWay
<1>7. OneHolder'
  <2>1. \A b \in Actors, p \in Petitions : Holder(b, p)' => Holder(b, p)
    <3> SUFFICES ASSUME NEW b \in Actors, NEW p \in Petitions, Holder(b, p)'
                 PROVE  Holder(b, p)
      OBVIOUS
    <3>1. CASE b # a
      BY <3>1 DEF Holder
    <3>2. CASE b = a
      <4>1. <<a, "ACKNOWLEDGED">> \in announced[p]
        BY <3>2 DEF Holder, Publishing, AckDecided
      <4>2. pc[a] # "ready"
        BY <1>1, <4>1 DEF SpokenLast, Fates
      <4> QED
        BY <3>2, <4>1, <4>2 DEF Holder
    <3> QED
      BY <3>1, <3>2
  <2> QED
    BY <2>1 DEF OneHolder
<1> QED
  BY <1>2, <1>3, <1>4, <1>5, <1>6, <1>7

(***************************************************************************)
(* A decision on its way goes one step further.                            *)
(***************************************************************************)
LEMMA AdvanceKeeps ==
  ASSUME PetitionInv, FateInv, NEW a \in Requests,
         UNCHANGED <<Fated, state, stale, dropped, pet, op>>,
         \/ pc[a] = "emit" /\ Goto(a, "rollback")
         \/ pc[a] = "ref_job" /\ Goto(a, "ref_event")
  PROVE  FateInv'
<1> USE DEF FateInv, Fated
<1>0. /\ a \in Actors /\ pc' = [pc EXCEPT ![a] = pc'[a]]
      /\ \A b \in Actors \ {a} : pc'[b] = pc[b]
      /\ \/ pc[a] = "emit" /\ pc'[a] = "rollback"
         \/ pc[a] = "ref_job" /\ pc'[a] = "ref_event"
  BY DEF Goto, Actors, PetitionInv, Control, ActorsTyped
<1>2. Shape' /\ Standing'
  BY DEF Shape, Standing
<1>3. Alone'
  BY <1>0 DEF Alone, Actors, Withdrawn
<1>4. SpokenLast'
  BY <1>0 DEF SpokenLast, Actors
<1>5. \A b \in Actors : Decided(b)'
  BY <1>0 DEF Decided, AckDecided, RefDecided
<1>6. Witnessed'
  <2>1. \A p \in Petitions : \A d : OnTheWay(d, p) => OnTheWay(d, p)'
    BY <1>0 DEF OnTheWay, AckDecided, RefDecided
  <2> QED
    BY <2>1 DEF Witnessed
<1>7. OneHolder'
  <2>1. \A b \in Actors, p \in Petitions : Holder(b, p)' <=> Holder(b, p)
    <3> TAKE b \in Actors, p \in Petitions
    <3>1. CASE b = a
      BY <1>0, <3>1 DEF Holder
    <3>2. CASE b # a
      BY <1>0, <3>2 DEF Holder
    <3> QED
      BY <3>1, <3>2
  <2>2. UNCHANGED ack
    OBVIOUS
  <2> QED
    BY <2>1, <2>2 DEF OneHolder
<1> QED
  BY <1>2, <1>3, <1>4, <1>5, <1>6, <1>7

(***************************************************************************)
(* Actor a decides fate f: of a petition that is open, or, as an           *)
(* acknowledgment, of one that is referred, unless its write is stale.     *)
(***************************************************************************)
LEMMA DecideKeeps ==
  ASSUME PetitionInv, FateInv, NEW a \in Actors, NEW f, NEW l,
         Goto(a, l), Decide(a, f), state' = [state EXCEPT ![pet[a]] = f],
         UNCHANGED <<ack, announced, dropped, pet, op>>,
         stale' \in [Petitions -> BOOLEAN],
         \A p \in Petitions : stale[p] => stale'[p],
         ~stale'[pet[a]] =>
           \/ state[pet[a]] \notin Fates
           \/ state[pet[a]] = "REFERRED" /\ f = "ACKNOWLEDGED" /\ l = "ack_event",
         \/ f = "ACKNOWLEDGED" /\ l = "emit" /\ pc[a] = "swap"
         \/ f = "ACKNOWLEDGED" /\ l = "ack_event" /\ pc[a] = "ack_write"
         \/ f = "REFERRED" /\ l = "ref_job" /\ pc[a] = "ref_state"
         \/ f = "ESCALATED" /\ l = "done" /\ pc[a] = "escalate_swap"
  PROVE  FateInv'
<1> USE DEF FateInv
<1> DEFINE p == pet[a]
           F == fates[p] \cup {<<a, f>>}
<1>0. /\ p \in Petitions /\ a \in Actors /\ pc'[a] = l /\ fates'[p] = F /\ state'[p] = f
      /\ \A b \in Actors \ {a} : pc'[b] = pc[b]
      /\ \A q \in Petitions \ {p} : fates'[q] = fates[q] /\ state'[q] = state[q]
      /\ \A q \in Petitions : fates[q] \subseteq fates'[q]
      /\ pet' = pet /\ op' = op /\ announced' = announced /\ ack' = ack /\ dropped' = dropped
  BY DEF Goto, Decide, PetitionInv, Control, ActorsTyped, StoreTyped, HistoryTyped
<1>1. ASSUME ~stale'[p]
      PROVE  /\ ~stale[p]
             /\ \/ fates[p] = {}
                \/ f = "ACKNOWLEDGED" /\ l = "ack_event" /\ \E x : fates[p] = {<<x, "REFERRED">>}
  <2>1. ~stale[p] /\ ShapeOf(state[p], fates[p])
    BY <1>0, <1>1 DEF Shape
  <2>2. CASE state[p] \notin Fates
    BY <2>1, <2>2 DEF ShapeOf, Fates
  <2>3. CASE state[p] = "REFERRED" /\ f = "ACKNOWLEDGED" /\ l = "ack_event"
    BY <2>1, <2>3 DEF ShapeOf, Fates
  <2> QED
    BY <1>1, <2>1, <2>2, <2>3
<1>2. Shape'
  <2> SUFFICES ASSUME NEW q \in Petitions, ~stale'[q] PROVE ShapeOf(state'[q], fates'[q])
    BY DEF Shape
  <2>1. CASE q # p
    BY <1>0, <2>1 DEF Shape
  <2>2. CASE q = p /\ fates[p] = {}
    <3>1. fates'[q] = {<<a, f>>} /\ state'[q] = f
      BY <1>0, <2>2
    <3> QED
      BY <3>1 DEF ShapeOf
  <2>3. ASSUME q = p, f = "ACKNOWLEDGED", NEW x, fates[p] = {<<x, "REFERRED">>}
        PROVE  ShapeOf(state'[q], fates'[q])
    <3>1. fates'[q] = {<<x, "REFERRED">>, <<a, "ACKNOWLEDGED">>} /\ state'[q] = "ACKNOWLEDGED"
      BY <1>0, <2>3
    <3> QED
      BY <3>1 DEF ShapeOf
  <2> QED
    BY <1>1, <2>1, <2>2, <2>3
<1>3. Alone'
  <2> SUFFICES ASSUME NEW r \in Requests, pc'[r] \in Withdrawn, ~stale'[pet[r]]
               PROVE  fates'[pet[r]] = {<<r, "ACKNOWLEDGED">>}
    BY <1>0 DEF Alone
  <2>0. r \in Actors /\ pet[r] \in Petitions /\ ~stale[pet[r]]
    BY DEF Actors, PetitionInv, Control, ActorsTyped
  <2>1. CASE r = a
    <3>1. l = "emit" /\ f = "ACKNOWLEDGED"
      BY <1>0, <2>1 DEF Withdrawn
    <3> QED
      BY <1>0, <1>1, <2>1, <3>1
  <2>2. CASE r # a
    <3>1. fates[pet[r]] = {<<r, "ACKNOWLEDGED">>}
      BY <1>0, <2>0, <2>2 DEF Alone
    <3>2. ASSUME NEW x PROVE {<<x, "REFERRED">>} # {<<r, "ACKNOWLEDGED">>}
      <4>1. <<r, "ACKNOWLEDGED">> \notin {<<x, "REFERRED">>}
        OBVIOUS
      <4> QED
        BY <4>1
    <3>3. {} # {<<r, "ACKNOWLEDGED">>}
      OBVIOUS
    <3>4. ASSUME pet[r] = p PROVE FALSE
      <4>1. /\ fates[p] = {<<r, "ACKNOWLEDGED">>}
            /\ \/ fates[p] = {}
               \/ \E x : fates[p] = {<<x, "REFERRED">>}
        BY <1>1, <3>1, <3>4
      <4> QED
        BY <4>1, <3>2, <3>3
    <3> QED
      BY <1>0, <2>0, <3>1, <3>4
  <2> QED
    BY <2>1, <2>2
<1>4. SpokenLast'
  BY <1>0 DEF SpokenLast, Actors
<1>5. Standing' /\ \A b \in Actors : Decided(b)'
  <2>1. Standing'
    BY <1>0 DEF Standing
  <2>2. \A b \in Actors \ {a} : Decided(b)'
    BY <1>0 DEF Decided, PetitionInv, Control, ActorsTyped
  <2>3. Decided(a)'
    BY <1>0 DEF Decided, AckDecided, RefDecided
  <2> QED
    BY <2>1, <2>2, <2>3
<1>6. Witnessed'
  <2> SUFFICES ASSUME NEW q \in Petitions, NEW d \in fates'[q], d[2] # "ESCALATED",
                      d \notin announced[q], dropped[q] \cap Publishing = {}
               PROVE  OnTheWay(d, q)'
    BY <1>0 DEF Witnessed
  <2>1. CASE d \in fates[q]
    <3>1. OnTheWay(d, q)
      BY <2>1 DEF Witnessed
    <3>2. pc[a] \notin Publishing
      BY DEF Publishing, AckDecided, RefDecided
    <3> QED
      BY <1>0, <3>1, <3>2 DEF OnTheWay, Publishing
  <2>2. CASE d \notin fates[q]
    <3>1. q = p /\ d = <<a, f>>
      BY <1>0, <2>2
    <3> QED
      BY <1>0, <3>1 DEF OnTheWay, AckDecided, RefDecided
  <2> QED
    BY <2>1, <2>2
<1>7. OneHolder'
  <2>1. \A b \in Actors, q \in Petitions : Holder(b, q)' => Holder(b, q)
    <3>1. op[a] = "withdraw" \/ pc'[a] # "emit"
      BY <1>0 DEF PetitionInv, Control, ActorFits
    <3> QED
      BY <1>0, <3>1 DEF Holder
  <2> QED
    BY <1>0, <2>1 DEF OneHolder
<1> QED
  BY <1>2, <1>3, <1>4, <1>5, <1>6, <1>7

(***************************************************************************)
(* Actor a announces what it decided.                                      *)
(***************************************************************************)
LEMMA AnnounceKeeps ==
  ASSUME PetitionInv, FateInv, NEW a \in Actors, NEW f,
         Goto(a, "done"), Announce(a, f),
         UNCHANGED <<state, fates, stale, ack, dropped, pet, op>>,
         \/ f = "ACKNOWLEDGED" /\ pc[a] \in {"emit", "ack_event"}
         \/ f = "REFERRED" /\ pc[a] = "ref_event"
  PROVE  FateInv'
<1> USE DEF FateInv
<1> DEFINE p == pet[a]
<1>0. /\ p \in Petitions /\ pc'[a] = "done"
      /\ announced'[p] = announced[p] \cup {<<a, f>>}
      /\ \A b \in Actors \ {a} : pc'[b] = pc[b]
      /\ \A q \in Petitions \ {p} : announced'[q] = announced[q]
      /\ \A q \in Petitions : announced[q] \subseteq announced'[q]
      /\ pet' = pet /\ op' = op /\ fates' = fates /\ ack' = ack /\ dropped' = dropped
      /\ state' = state /\ stale' = stale
  BY DEF Goto, Announce, PetitionInv, Control, ActorsTyped, HistoryTyped
<1>1. <<a, f>> \in fates[p]
  BY DEF Decided, AckDecided, RefDecided
<1>2. Shape' /\ Standing'
  BY <1>0, <1>1 DEF Shape, Standing
<1>3. Alone'
  BY <1>0 DEF Alone, Actors, Withdrawn
<1>4. SpokenLast'
  BY <1>0 DEF SpokenLast, Actors
<1>5. \A b \in Actors : Decided(b)'
  BY <1>0 DEF Decided, AckDecided, RefDecided
<1>6. Witnessed'
  <2> SUFFICES ASSUME NEW q \in Petitions, NEW d \in fates[q], d[2] # "ESCALATED",
                      d \notin announced'[q], dropped[q] \cap Publishing = {}
               PROVE  OnTheWay(d, q)'
    BY <1>0 DEF Witnessed
  <2>1. OnTheWay(d, q)
    BY <1>0 DEF Witnessed
  <2>2. PICK b \in Actors :
          /\ pet[b] = q
          /\ \/ d = <<b, "ACKNOWLEDGED">> /\ pc[b] \in AckDecided
             \/ d = <<b, "REFERRED">> /\ pc[b] \in RefDecided
    BY <2>1 DEF OnTheWay
  <2>3. b # a
    BY <1>0, <2>2 DEF AckDecided, RefDecided
  <2> QED
    BY <1>0, <2>2, <2>3 DEF OnTheWay
<1>7. OneHolder'
  <2>1. \A b \in Actors, q \in Petitions : Holder(b, q)' => Holder(b, q)
    <3>1. pc[a] = "emit" => op[a] = "withdraw"
      BY DEF PetitionInv, Control, ActorFits
    <3>2. ASSUME NEW b \in Actors, NEW q \in Petitions, Holder(b, q)', b # a
          PROVE  Holder(b, q)
      BY <1>0, <3>2 DEF Holder
    <3>3. ASSUME NEW q \in Petitions, Holder(a, q)' PROVE Holder(a, q)
      BY <1>0, <3>1, <3>3 DEF Holder
    <3> QED
      BY <3>2, <3>3
  <2> QED
    BY <1>0, <2>1 DEF OneHolder
<1> QED
  BY <1>2, <1>3, <1>4, <1>5, <1>6, <1>7

(***************************************************************************)
(* A withdrawal is taken back: it was the only decision, or the write was  *)
(* stale.                                                                  *)
(***************************************************************************)
LEMMA RollbackKeeps ==
  ASSUME PetitionInv, FateInv, NEW r \in Requests, WithdrawRollback(r)
  PROVE  FateInv'
<1> USE DEF FateInv
<1> DEFINE p == pet[r]
           mine == <<r, "ACKNOWLEDGED">>
<1>0. /\ r \in Actors /\ p \in Petitions /\ pc[r] = "rollback" /\ pc'[r] = "done"
      /\ op[r] = "withdraw" /\ seen[r] \notin Fates
      /\ state'[p] = seen[r] /\ fates'[p] = fates[p] \ {mine}
      /\ \A q \in Petitions : stale[q] => stale'[q]
      /\ \A b \in Actors \ {r} : pc'[b] = pc[b]
      /\ \A q \in Petitions \ {p} : fates'[q] = fates[q] /\ state'[q] = state[q]
      /\ UNCHANGED <<pet, op, announced, ack, dropped>>
  BY DEF WithdrawRollback, RolledBack, Goto, Actors, PetitionInv, Control, ActorsTyped, StoreTyped,
     HistoryTyped, ActorFits, OpenStates, Fates
<1>1. ~stale[p] => fates[p] = {mine}
  BY <1>0 DEF Alone, Withdrawn
<1>2. Shape'
  <2> SUFFICES ASSUME NEW q \in Petitions, ~stale'[q] PROVE ShapeOf(state'[q], fates'[q])
    BY DEF Shape
  <2>1. CASE q # p
    BY <1>0, <2>1 DEF Shape
  <2>2. CASE q = p
    <3>1. fates'[q] = {} /\ state'[q] \notin Fates
      BY <1>0, <1>1, <2>2
    <3> QED
      BY <3>1 DEF ShapeOf
  <2> QED
    BY <2>1, <2>2
<1>3. Alone'
  <2> SUFFICES ASSUME NEW q \in Requests, pc'[q] \in Withdrawn, ~stale'[pet[q]]
               PROVE  fates'[pet[q]] = {<<q, "ACKNOWLEDGED">>}
    BY <1>0 DEF Alone
  <2>1. q # r /\ q \in Actors /\ pet[q] \in Petitions
    BY <1>0 DEF Actors, Withdrawn, PetitionInv, Control, ActorsTyped
  <2>2. fates[pet[q]] = {<<q, "ACKNOWLEDGED">>} /\ ~stale[pet[q]]
    BY <1>0, <2>1 DEF Alone
  <2>3. ASSUME pet[q] = p PROVE FALSE
    <3>1. mine \in {<<q, "ACKNOWLEDGED">>}
      BY <1>1, <2>2, <2>3
    <3> QED
      BY <2>1, <3>1
  <2> QED
    BY <1>0, <2>1, <2>2, <2>3
<1>4. SpokenLast'
  BY <1>0 DEF SpokenLast, Actors
<1>5. Standing'
  <2>1. mine \notin announced[p]
    BY <1>0 DEF SpokenLast, Fates
  <2> QED
    BY <1>0, <2>1 DEF Standing
<1>6. \A b \in Actors : Decided(b)'
  <2>1. Decided(r)'
    BY <1>0 DEF Decided, AckDecided, RefDecided
  <2>2. ASSUME NEW b \in Actors \ {r} PROVE Decided(b)'
    <3>1. pet[b] \in Petitions /\ Decided(b)
      BY DEF PetitionInv, Control, ActorsTyped
    <3>2. <<b, "ACKNOWLEDGED">> # mine /\ <<b, "REFERRED">> # mine
      OBVIOUS
    <3> QED
      BY <1>0, <3>1, <3>2 DEF Decided
  <2> QED
    BY <2>1, <2>2
<1>7. Witnessed'
  <2> SUFFICES ASSUME NEW q \in Petitions, NEW d \in fates'[q], d[2] # "ESCALATED",
                      d \notin announced[q], dropped[q] \cap Publishing = {}
               PROVE  OnTheWay(d, q)'
    BY <1>0 DEF Witnessed
  <2>1. d \in fates[q] /\ (q = p => d # mine)
    BY <1>0
  <2>2. OnTheWay(d, q)
    BY <2>1 DEF Witnessed
  <2>3. PICK b \in Actors :
          /\ pet[b] = q
          /\ \/ d = <<b, "ACKNOWLEDGED">> /\ pc[b] \in AckDecided
             \/ d = <<b, "REFERRED">> /\ pc[b] \in RefDecided
    BY <2>2 DEF OnTheWay
  <2>4. b # r
    BY <1>0, <2>1, <2>3 DEF RefDecided
  <2> QED
    BY <1>0, <2>3, <2>4 DEF OnTheWay
<1>8. OneHolder'
  <2>1. \A b \in Actors, q \in Petitions : Holder(b, q)' => Holder(b, q)
    BY <1>0 DEF Holder
  <2> QED
    BY <1>0, <2>1 DEF OneHolder
<1> QED
  BY <1>2, <1>3, <1>4, <1>5, <1>6, <1>7, <1>8

(***************************************************************************)
(* The storage takes an acknowledgment: there was none, so nobody held it. *)
(***************************************************************************)
LEMMA AckSaveKeeps ==
  ASSUME PetitionInv, FateInv, NEW a \in Actors, AckSave(a), AckFree(pet[a])
  PROVE  FateInv'
<1> USE DEF FateInv
<1> DEFINE p == pet[a]
<1>0. /\ p \in Petitions /\ pc[a] = "ack_save" /\ pc'[a] = "ack_write" /\ ack[p] = "none"
      /\ ack'[p] # "none"
      /\ \A b \in Actors \ {a} : pc'[b] = pc[b]
      /\ \A q \in Petitions \ {p} : ack'[q] = ack[q]
      /\ UNCHANGED <<pet, op, announced, fates, dropped, state, stale>>
  BY DEF AckSave, AckFree, Goto, PetitionInv, Control, ActorsTyped, StoreTyped, ActorFits,
     AckSteps, AckOps, historyVars
<1>1. Shape' /\ Standing' /\ SpokenLast' /\ Alone'
  BY <1>0 DEF Shape, Standing, SpokenLast, Alone, Withdrawn, Actors
<1>2. \A b \in Actors : Decided(b)'
  BY <1>0 DEF Decided, AckDecided, RefDecided
<1>3. Witnessed'
  <2>1. \A q \in Petitions : \A d : OnTheWay(d, q) => OnTheWay(d, q)'
    BY <1>0 DEF OnTheWay, AckDecided, RefDecided
  <2> QED
    BY <1>0, <2>1 DEF Witnessed
<1>4. OneHolder'
  <2>1. \A b \in Actors : ~Holder(b, p)
    BY <1>0 DEF OneHolder
  <2>2. \A b \in Actors, q \in Petitions : Holder(b, q)' => Holder(b, q) \/ (b = a /\ q = p)
    BY <1>0 DEF Holder
  <2> QED
    BY <1>0, <2>1, <2>2 DEF OneHolder
<1> QED
  BY <1>1, <1>2, <1>3, <1>4

-----------------------------------------------------------------------------
(***************************************************************************)
(* Every step is one of these.                                             *)
(***************************************************************************)
LEMMA NewRequestFate ==
  ASSUME PetitionInv, FateInv, NEW r \in Requests, NEW p \in Petitions, NewRequest(r, p)
  PROVE  FateInv'
<1>1. /\ r \in Actors /\ pc[r] = "ready"
      /\ pc'[r] \in {"swap", "create", "start_session", "ack_find", "ref_save", "ref_update"}
      /\ \A b \in Actors \ {r} : pc'[b] = pc[b] /\ pet'[b] = pet[b] /\ op'[b] = op[b]
      /\ UNCHANGED <<Fated, state, stale, dropped>>
  BY DEF NewRequest, Withdraw, AssignArchons, Acknowledge, Refer, CoSign, KnightReads, Begin, Goto,
     storeVars, historyVars, Fated, PetitionInv, Control, ActorsTyped, Actors
<1>2. Aside(r)
  BY <1>1 DEF Aside, Publishing, AckDecided, RefDecided
<1> QED
  BY <1>1, <1>2, AsideKeeps

LEMMA RequestFate ==
  ASSUME PetitionInv, FateInv, NEW r \in Requests, RequestStep(r) \/ RequestFails(r)
  PROVE  FateInv'
<1> USE DEF PetitionInv, Control
<1>0. /\ r \in Actors /\ pet[r] \in Petitions /\ ActorFits(r)
      /\ stale \in [Petitions -> BOOLEAN] /\ pc \in [Actors -> Pc]
      /\ state \in [Petitions -> PetitionState] /\ dropped \in [Petitions -> SUBSET Pc]
  BY DEF Actors, ActorsTyped, HistoryTyped, StoreTyped
<1>1. ASSUME NEW l \in {"done", "escalate", "escalate_swap", "ack_find", "ref_state", "rec_event"},
             Goto(r, l), UNCHANGED <<Fated, pet, op>>, UNCHANGED dropped \/ Drop(r),
             UNCHANGED <<state, stale>>, pc[r] # "done", pc[r] \in Publishing => Drop(r)
      PROVE  FateInv'
  <2>1. /\ pc'[r] = l /\ \A b \in Actors \ {r} : pc'[b] = pc[b]
        /\ \A q \in Petitions : dropped[q] \subseteq dropped'[q]
        /\ Drop(r) => pc[r] \in dropped'[pet[r]]
    BY <1>0, <1>1 DEF Goto, Drop
  <2>2. Aside(r)
    BY <1>0, <1>1, <2>1 DEF Aside, Publishing, AckDecided, RefDecided
  <2> QED
    BY <1>0, <2>2, AsideKeeps
<1> USE DEF Publishing, AckDecided, RefDecided, Fated
<1>2. CASE WithdrawSwap(r)
  <2>1. CASE ~halted /\ Swaps(pet[r], seen[r], "ACKNOWLEDGED")
    <3>1. state[pet[r]] \notin Fates
      BY <1>0, <1>2, <2>1 DEF WithdrawSwap, Swaps, ActorFits, OpenStates, Fates
    <3>2. /\ Goto(r, "emit") /\ Decide(r, "ACKNOWLEDGED") /\ pc[r] = "swap"
          /\ state' = [state EXCEPT ![pet[r]] = "ACKNOWLEDGED"]
          /\ UNCHANGED <<ack, announced, dropped, pet, op, stale>>
      BY <1>2, <2>1 DEF WithdrawSwap
    <3> QED
      BY <1>0, <3>1, <3>2, DecideKeeps
  <2>2. CASE ~(~halted /\ Swaps(pet[r], seen[r], "ACKNOWLEDGED"))
    BY <1>1, <1>2, <2>2 DEF WithdrawSwap
  <2> QED
    BY <2>1, <2>2
<1>3. CASE WithdrawEmit(r)
  <2>1. CASE Announce(r, "ACKNOWLEDGED") /\ Goto(r, "done")
    BY <1>0, <1>3, <2>1, AnnounceKeeps DEF WithdrawEmit, storeVars
  <2>2. CASE Goto(r, EmitRefused) /\ UNCHANGED announced
    BY <1>3, <2>2, AdvanceKeeps DEF WithdrawEmit, EmitRefused, storeVars
  <2> QED
    BY <1>3, <2>1, <2>2 DEF WithdrawEmit
<1>4. CASE WithdrawRollback(r)
  BY <1>4, RollbackKeeps
<1>5. CASE CoSignCreate(r) \/ ReferSave(r) \/ KnightWrites(r)
  BY <1>1, <1>5 DEF CoSignCreate, ReferSave, KnightWrites, historyVars
<1>6. CASE EscalateRead(r) \/ Recommended(r)
  BY <1>1, <1>6 DEF EscalateRead, Recommended, storeVars
<1>7. CASE EscalateSwap(r)
  <2>1. CASE Swaps(pet[r], seen[r], "ESCALATED")
    <3>1. state[pet[r]] \notin Fates
      BY <1>0, <1>7, <2>1 DEF EscalateSwap, Swaps, ActorFits, OpenStates, Fates
    <3>2. /\ Goto(r, "done") /\ Decide(r, "ESCALATED") /\ pc[r] = "escalate_swap"
          /\ state' = [state EXCEPT ![pet[r]] = "ESCALATED"]
          /\ UNCHANGED <<ack, announced, dropped, pet, op, stale>>
      BY <1>7, <2>1 DEF EscalateSwap
    <3> QED
      BY <1>0, <3>1, <3>2, DecideKeeps
  <2>2. CASE ~Swaps(pet[r], seen[r], "ESCALATED")
    BY <1>1, <1>7, <2>2 DEF EscalateSwap
  <2> QED
    BY <2>1, <2>2
<1>8. CASE StartSession(r)
  <2>1. /\ Goto(r, "done") /\ pc[r] = "start_session" /\ seen[r] = "RECEIVED"
        /\ state' = [state EXCEPT ![pet[r]] = "DELIBERATING"]
        /\ stale' = [stale EXCEPT ![pet[r]] = @ \/ state[pet[r]] # seen[r]]
        /\ UNCHANGED <<ack, fates, announced, dropped, pet, op>>
    BY <1>0, <1>8 DEF StartSession, Write, ActorFits
  <2>2. pc'[r] = "done" /\ \A b \in Actors \ {r} : pc'[b] = pc[b]
    BY <1>0, <2>1 DEF Goto
  <2>3. ASSUME NEW q \in Petitions
        PROVE  /\ stale[q] => stale'[q]
               /\ stale'[q] \/ state'[q] = state[q] \/ (state[q] \notin Fates /\ state'[q] \notin Fates)
               /\ dropped[q] \subseteq dropped'[q]
    BY <1>0, <2>1, <2>3 DEF Fates
  <2>4. Aside(r)
    BY <2>1, <2>2, <2>3 DEF Aside
  <2> QED
    BY <1>0, <2>4, AsideKeeps
<1>9. CASE ReferState(r)
  <2>1. /\ Goto(r, "ref_job") /\ Decide(r, "REFERRED") /\ pc[r] = "ref_state"
        /\ state' = [state EXCEPT ![pet[r]] = "REFERRED"]
        /\ stale' = [stale EXCEPT ![pet[r]] = @ \/ state[pet[r]] # seen[r]]
        /\ seen[r] = "DELIBERATING"
        /\ UNCHANGED <<ack, announced, dropped, pet, op>>
    BY <1>0, <1>9 DEF ReferState, Write, ActorFits
  <2>2. /\ stale' \in [Petitions -> BOOLEAN]
        /\ \A q \in Petitions : stale[q] => stale'[q]
        /\ ~stale'[pet[r]] => state[pet[r]] \notin Fates
    BY <1>0, <2>1 DEF Fates
  <2> QED
    BY <1>0, <2>1, <2>2, DecideKeeps
<1>10. CASE ReferJob(r)
  BY <1>10, AdvanceKeeps DEF ReferJob, storeVars, historyVars
<1>11. CASE ReferEvent(r)
  BY <1>0, <1>11, AnnounceKeeps DEF ReferEvent, storeVars
<1>12. CASE RequestFails(r)
  BY <1>1, <1>12 DEF RequestFails, Busy, storeVars
<1> QED
  BY <1>2, <1>3, <1>4, <1>5, <1>6, <1>7, <1>8, <1>9, <1>10, <1>11, <1>12 DEF RequestStep

LEMMA AckFate ==
  ASSUME PetitionInv, FateInv, NEW a \in Actors, AckStep(a)
  PROVE  FateInv'
<1> USE DEF PetitionInv, Control
<1>0. /\ pet[a] \in Petitions /\ ActorFits(a)
      /\ stale \in [Petitions -> BOOLEAN] /\ pc \in [Actors -> Pc]
      /\ state \in [Petitions -> PetitionState]
  BY DEF ActorsTyped, HistoryTyped, StoreTyped
<1>1. ASSUME NEW l \in {"done", "ack_save"}, Goto(a, l), pc[a] \in {"ack_find", "ack_save"},
             UNCHANGED <<Fated, pet, op, dropped, state, stale>>
      PROVE  FateInv'
  <2>1. pc'[a] = l /\ \A b \in Actors \ {a} : pc'[b] = pc[b]
    BY <1>0, <1>1 DEF Goto
  <2>2. Aside(a)
    BY <1>1, <2>1 DEF Aside, Publishing, AckDecided, RefDecided
  <2> QED
    BY <2>2, AsideKeeps
<1>2. CASE AckFind(a)
  BY <1>1, <1>2 DEF AckFind, Returns, storeVars, historyVars, Fated
<1>3. CASE AckSave(a)
  <2>1. CASE ~AckFree(pet[a])
    BY <1>1, <1>3, <2>1 DEF AckSave, Raises, historyVars, Fated
  <2> QED
    BY <1>3, <2>1, AckSaveKeeps
<1>4. CASE AckWrite(a)
  <2>1. /\ Goto(a, "ack_event") /\ Decide(a, "ACKNOWLEDGED") /\ pc[a] = "ack_write"
        /\ state' = [state EXCEPT ![pet[a]] = "ACKNOWLEDGED"]
        /\ stale' = [stale EXCEPT ![pet[a]] = @ \/ state[pet[a]] # seen[a]]
        /\ seen[a] \in {"DELIBERATING", "REFERRED"}
        /\ UNCHANGED <<ack, announced, dropped, pet, op>>
    BY <1>0, <1>4 DEF AckWrite, Write, ActorFits, AckSteps
  <2>2. /\ stale' \in [Petitions -> BOOLEAN]
        /\ \A q \in Petitions : stale[q] => stale'[q]
        /\ ~stale'[pet[a]] => state[pet[a]] \notin Fates \/ state[pet[a]] = "REFERRED"
    BY <1>0, <2>1 DEF Fates
  <2> QED
    BY <1>0, <2>1, <2>2, DecideKeeps
<1>5. CASE AckEvent(a)
  BY <1>0, <1>5, AnnounceKeeps DEF AckEvent, Returns, storeVars
<1> QED
  BY <1>2, <1>3, <1>4, <1>5 DEF AckStep

LEMMA WorkerFate ==
  ASSUME PetitionInv, FateInv, NEW w \in Workers,
         \/ \E p \in Petitions : TimeoutClaim(w, p)
         \/ TimeoutStep(w) \/ TimeoutFails(w) \/ WorkerStops(w)
  PROVE  FateInv'
<1> USE DEF PetitionInv, Control
<1>0. /\ w \in Actors /\ w \notin Requests /\ pet[w] \in Petitions /\ op[w] \in {"none", "timeout"}
      /\ pc \in [Actors -> Pc] /\ dropped \in [Petitions -> SUBSET Pc]
      /\ op \in [Actors -> Ops] /\ pet \in [Actors -> Petitions]
  BY PetitionAssumption DEF Actors, ActorsTyped, HistoryTyped, ActorFits
<1>1. /\ UNCHANGED <<Fated, state, stale>>
      /\ pc' = [pc EXCEPT ![w] = pc'[w]]
      /\ pc'[w] \in {"exp_read", "exp_save", "exp_event", "ack_find", "done"}
  BY <1>0 DEF TimeoutClaim, TimeoutStep, TimeoutFails, WorkerStops, TimeoutRead, TimeoutSave,
     TimeoutEvent, Returns, Raises, Goto, storeVars, historyVars, Fated
<1>2. \A b \in Actors \ {w} : pc'[b] = pc[b] /\ pet'[b] = pet[b] /\ op'[b] = op[b]
  BY <1>0, <1>1 DEF TimeoutClaim, TimeoutStep, TimeoutFails, WorkerStops, TimeoutRead, TimeoutSave,
     TimeoutEvent
<1>3. \A q \in Petitions : dropped[q] \subseteq dropped'[q]
  BY <1>0 DEF TimeoutClaim, TimeoutStep, TimeoutFails, WorkerStops, TimeoutRead, TimeoutSave,
     TimeoutEvent, Drop, historyVars
<1>4. ASSUME pc[w] \in Publishing PROVE pc[w] \in dropped'[pet[w]]
  <2>1. Busy(w) /\ wpc[w] = "handler"
    BY <1>4 DEF Busy, Publishing, AckDecided, RefDecided, InHandler
  <2>2. ~(\E p \in Petitions : TimeoutClaim(w, p)) /\ ~TimeoutStep(w)
    BY <1>4, <2>1 DEF TimeoutClaim, Claim, TimeoutStep, TimeoutRead, TimeoutSave, TimeoutEvent,
       Publishing, AckDecided, RefDecided
  <2>3. Drop(w)
    BY <2>1, <2>2 DEF TimeoutFails, WorkerStops
  <2> QED
    BY <1>0, <2>3 DEF Drop
<1>5. Aside(w)
  BY <1>0, <1>1, <1>2, <1>3, <1>4 DEF Aside, Publishing, AckDecided, RefDecided
<1> QED
  BY <1>0, <1>5, AsideKeeps

LEMMA FateInvKept == PetitionInv /\ FateInv /\ [Next]_vars => FateInv'
<1> SUFFICES ASSUME PetitionInv, FateInv, [Next]_vars PROVE FateInv'
  OBVIOUS
<1>1. ASSUME UNCHANGED <<Fated, state, stale, dropped, pc, pet, op>> PROVE FateInv'
  BY <1>1 DEF Fated, FateInv, Shape, Alone, SpokenLast, Standing, Witnessed, OnTheWay, OneHolder,
     Holder, Decided
<1>2. CASE UNCHANGED petitionVars
  BY <1>1, <1>2 DEF petitionVars, storeVars, actorVars, historyVars, Fated
<1>3. ASSUME NEW p \in Petitions, Review(p) PROVE FateInv'
  BY <1>1, <1>3 DEF Review, actorVars, historyVars, Fated
<1>4. ASSUME NEW w \in Workers, CompletionFails(w) PROVE FateInv'
  BY <1>1, <1>4 DEF CompletionFails, storeVars, actorVars, historyVars, Fated
<1>5. ASSUME NEW p \in Petitions, Submit(p) PROVE FateInv'
  <2>1. UNCHANGED <<Fated, stale, dropped, pc, pet, op>>
    BY <1>5 DEF Submit, actorVars, historyVars, Fated
  <2>2. /\ state[p] \notin Fates /\ state'[p] \notin Fates
        /\ \A q \in Petitions \ {p} : state'[q] = state[q]
    BY <1>5 DEF Submit, Fates, PetitionInv, Control, StoreTyped
  <2>3. Shape'
    <3> SUFFICES ASSUME NEW q \in Petitions, ~stale[q] PROVE ShapeOf(state'[q], fates[q])
      BY <2>1 DEF Shape, Fated
    <3>1. ShapeOf(state[q], fates[q])
      BY DEF FateInv, Shape
    <3>2. CASE q = p
      BY <2>2, <3>1, <3>2 DEF ShapeOf, Fates
    <3> QED
      BY <2>2, <3>1, <3>2
  <2> QED
    BY <2>1, <2>3 DEF Fated, FateInv, Alone, SpokenLast, Standing, Witnessed, OnTheWay, OneHolder,
       Holder, Decided
<1> QED
  BY <1>2, <1>3, <1>4, <1>5, NewRequestFate, RequestFate, AckFate, WorkerFate
  DEF Next, QueueStep, vars

THEOREM FateInvariant == Spec => [](PetitionInv /\ FateInv)
<1>1. Init => PetitionInv /\ FateInv
  BY InitFate, InitControl, QueueInitInv DEF Init, PetitionInv, InHandler, Busy
<1>2. PetitionInv /\ FateInv /\ [Next]_vars => (PetitionInv /\ FateInv)'
  BY FateInvKept, PetitionInvKept
<1> QED
  BY <1>1, <1>2, PTL DEF Spec

(***************************************************************************)
(* However many withdrawals, escalations, acknowledgments and referrals    *)
(* race and fail: as long as no write was stale, a petition has one fate.  *)
(***************************************************************************)
THEOREM OneFate == Spec => []SingleFate
  BY FateInvariant, FateInvImplies, PTL

(***************************************************************************)
(* A fate in the ledger stands, and no fate stays silent unless the        *)
(* operation that decided it was cut off.                                  *)
(***************************************************************************)
THEOREM FatesWitnessed == Spec => []FateWitnessed
  BY FateInvariant, FateInvImplies, PTL

(***************************************************************************)
(* Of all who acknowledge a petition one publishes an acknowledgment, and  *)
(* its record is stored.                                                   *)
(***************************************************************************)
THEOREM AcknowledgedOnce == Spec => []OneAcknowledgment
  BY FateInvariant, FateInvImplies, PTL
-----------------------------------------------------------------------------
(***************************************************************************)
(* Without overlap.  At most one actor is at work; what it has read is     *)
(* still what the stores hold when it writes, and so no write is stale.    *)
(***************************************************************************)
ReadHolds(a) ==
  /\ pc[a] \in {"swap", "escalate_swap", "start_session", "ref_save", "ref_state"} \cup AckSteps
       => state[pet[a]] = seen[a]
  /\ pc[a] \in Withdrawn => state[pet[a]] = "ACKNOWLEDGED"
  /\ pc[a] \in {"ref_update", "exp_save"} => ref[pet[a]] = seenRef[a]

NothingStale == \A p \in Petitions : ~stale[p] /\ ~refStale[p]

OneAtWork == \A a, b \in Actors : Busy(a) /\ Busy(b) => a = b

Undisturbed ==
  ~overlap => OneAtWork /\ NothingStale /\ \A a \in Actors : ReadHolds(a)

(***************************************************************************)
(* A step of the one actor at work, or of the first one to begin.          *)
(***************************************************************************)
LEMMA OneActorKeeps ==
  ASSUME Undisturbed, NEW a \in Actors, UNCHANGED overlap,
         \A b \in Actors \ {a} : pc'[b] = pc[b],
         ~overlap => (Busy(a) \/ Quiet) /\ ReadHolds(a)' /\ NothingStale'
  PROVE  Undisturbed'
<1> SUFFICES ASSUME ~overlap
             PROVE  OneAtWork' /\ NothingStale' /\ \A b \in Actors : ReadHolds(b)'
  BY DEF Undisturbed
<1>1. \A b \in Actors \ {a} : ~Busy(b)
  BY DEF Undisturbed, OneAtWork, Quiet
<1>2. \A b \in Actors \ {a} : pc'[b] \in {"ready", "done"}
  BY <1>1 DEF Busy
<1>3. OneAtWork'
  BY <1>2 DEF OneAtWork, Busy
<1>4. \A b \in Actors \ {a} : ReadHolds(b)'
  BY <1>2 DEF ReadHolds, Withdrawn, AckSteps
<1> QED
  BY <1>3, <1>4

LEMMA NewRequestUndisturbed ==
  ASSUME Control, Undisturbed, NEW r \in Requests, NEW p \in Petitions, NewRequest(r, p)
  PROVE  Undisturbed'
<1> r \in Actors
  BY DEF Actors
<1>1. PICK o, l : Begin(r, o, p, l) /\ l \notin Withdrawn \cup {"exp_save"}
  BY DEF NewRequest, Withdraw, AssignArchons, Acknowledge, Refer, CoSign, KnightReads, Withdrawn
<1>2. UNCHANGED <<state, ref, stale, refStale>>
  BY DEF NewRequest, Withdraw, AssignArchons, Acknowledge, Refer, CoSign, KnightReads,
     storeVars, historyVars
<1>3. /\ pc'[r] = l /\ pet'[r] = p /\ seen'[r] = state[p] /\ seenRef'[r] = ref[p]
      /\ \A b \in Actors \ {r} : pc'[b] = pc[b]
      /\ UNCHANGED overlap /\ (overlap \/ Quiet)
  BY <1>1 DEF Begin, Goto, runVars, Control, ActorsTyped
<1>4. ReadHolds(r)'
  BY <1>1, <1>2, <1>3 DEF ReadHolds
<1>5. ~overlap => NothingStale'
  BY <1>2 DEF Undisturbed, NothingStale
<1> QED
  BY <1>3, <1>4, <1>5, OneActorKeeps

LEMMA RequestUndisturbed ==
  ASSUME Control, Undisturbed, NEW r \in Requests, RequestStep(r) \/ RequestFails(r)
  PROVE  Undisturbed'
<1> r \in Actors
  BY DEF Actors
<1> USE DEF Control, ActorsTyped
<1>1. Busy(r) /\ UNCHANGED overlap /\ \A b \in Actors \ {r} : pc'[b] = pc[b]
  BY DEF RequestStep, RequestFails, WithdrawSwap, WithdrawEmit, WithdrawRollback,
     CoSignCreate, EscalateRead, EscalateSwap, StartSession, ReferSave, ReferState, ReferJob,
     ReferEvent, KnightWrites, Recommended, Goto, runVars, Busy
<1> SUFFICES ASSUME ~overlap PROVE ReadHolds(r)' /\ NothingStale'
  BY <1>1, OneActorKeeps
<1>2. ReadHolds(r) /\ NothingStale /\ pet[r] \in Petitions
  BY DEF Undisturbed
<1>3. CASE WithdrawSwap(r)
  BY <1>2, <1>3 DEF WithdrawSwap, Goto, ReadHolds, NothingStale, Withdrawn, AckSteps, StoreTyped
<1>4. CASE WithdrawEmit(r) \/ ReferSave(r)
  BY <1>2, <1>4 DEF WithdrawEmit, EmitRefused, ReferSave, Goto, ReadHolds, NothingStale, Withdrawn,
     AckSteps, storeVars, historyVars
<1>5. CASE WithdrawRollback(r) \/ StartSession(r) \/ ReferState(r)
  <2>1. pc'[r] \in {"done", "ref_job"} /\ refStale' = refStale
    BY <1>5 DEF WithdrawRollback, StartSession, ReferState, Goto
  <2>2. \A p \in Petitions : ~stale'[p]
    BY <1>2, <1>5 DEF WithdrawRollback, StartSession, ReferState, Write, ReadHolds, NothingStale,
       Withdrawn, HistoryTyped
  <2> QED
    BY <1>2, <2>1, <2>2 DEF ReadHolds, NothingStale, Withdrawn, AckSteps
<1>6. CASE KnightWrites(r)
  <2>1. pc'[r] \in {"done", "rec_event"} /\ stale' = stale
    BY <1>6 DEF KnightWrites, Goto
  <2>2. \A p \in Petitions : ~refStale'[p]
    BY <1>2, <1>6 DEF KnightWrites, WriteReferral, ReadHolds, NothingStale, HistoryTyped
  <2> QED
    BY <1>2, <2>1, <2>2 DEF ReadHolds, NothingStale, Withdrawn, AckSteps
<1>7. CASE EscalateRead(r) \/ Recommended(r)
  <2>1. /\ UNCHANGED <<state, pet, stale, refStale>> /\ seen'[r] = state[pet[r]]
        /\ pc'[r] \in {"done", "escalate_swap", "ack_find"}
    BY <1>7 DEF EscalateRead, Recommended, Goto, storeVars
  <2> QED
    BY <1>2, <2>1 DEF ReadHolds, NothingStale, Withdrawn
<1>8. CASE CoSignCreate(r) \/ EscalateSwap(r) \/ ReferJob(r) \/ ReferEvent(r) \/ RequestFails(r)
  <2>1. UNCHANGED <<stale, refStale>> /\ pc'[r] \in {"done", "escalate", "ref_event"}
    BY <1>8 DEF CoSignCreate, EscalateSwap, ReferJob, ReferEvent, RequestFails, Goto, historyVars
  <2> QED
    BY <1>2, <2>1 DEF ReadHolds, NothingStale, Withdrawn, AckSteps
<1> QED
  BY <1>3, <1>4, <1>5, <1>6, <1>7, <1>8 DEF RequestStep

LEMMA AckUndisturbed ==
  ASSUME Control, Undisturbed, NEW a \in Actors, AckStep(a)
  PROVE  Undisturbed'
<1> USE DEF Control, ActorsTyped
<1>1. Busy(a) /\ UNCHANGED overlap /\ \A b \in Actors \ {a} : pc'[b] = pc[b]
  BY DEF AckStep, AckFind, AckSave, AckWrite, AckEvent, Returns, Raises, Goto, runVars, Busy
<1> SUFFICES ASSUME ~overlap PROVE ReadHolds(a)' /\ NothingStale'
  BY <1>1, OneActorKeeps
<1>2. ReadHolds(a) /\ NothingStale /\ pet[a] \in Petitions
  BY DEF Undisturbed
<1>3. CASE AckFind(a) \/ AckSave(a)
  <2>1. UNCHANGED <<state, pet, seen, stale, refStale>> /\ pc[a] \in AckSteps
    BY <1>3 DEF AckFind, AckSave, AckSteps, storeVars, historyVars
  <2>2. pc'[a] \in {"done", "ack_save", "ack_write"}
    BY <1>3 DEF AckFind, AckSave, Returns, Raises, Goto
  <2> QED
    BY <1>2, <2>1, <2>2 DEF ReadHolds, NothingStale, Withdrawn
<1>4. CASE AckWrite(a)
  <2>1. pc'[a] = "ack_event" /\ refStale' = refStale
    BY <1>4 DEF AckWrite, Goto
  <2>2. \A p \in Petitions : ~stale'[p]
    BY <1>2, <1>4 DEF AckWrite, Write, ReadHolds, NothingStale, AckSteps, HistoryTyped
  <2> QED
    BY <1>2, <2>1, <2>2 DEF ReadHolds, NothingStale, Withdrawn, AckSteps
<1>5. CASE AckEvent(a)
  <2>1. pc'[a] = "done" /\ UNCHANGED <<stale, refStale>>
    BY <1>5 DEF AckEvent, Returns, Goto
  <2> QED
    BY <1>2, <2>1 DEF ReadHolds, NothingStale, Withdrawn, AckSteps
<1> QED
  BY <1>3, <1>4, <1>5 DEF AckStep

LEMMA WorkerUndisturbed ==
  ASSUME Control, Undisturbed, NEW w \in Workers,
         \/ \E p \in Petitions : TimeoutClaim(w, p)
         \/ TimeoutStep(w) \/ TimeoutFails(w) \/ WorkerStops(w)
  PROVE  Undisturbed'
<1> w \in Actors
  BY DEF Actors
<1> USE DEF Control, ActorsTyped
<1>1. ASSUME NEW p \in Petitions, TimeoutClaim(w, p) PROVE Undisturbed'
  <2>1. /\ pc'[w] = "exp_read" /\ (overlap \/ Quiet)
        /\ UNCHANGED <<overlap, stale, refStale>> /\ \A b \in Actors \ {w} : pc'[b] = pc[b]
    BY <1>1 DEF TimeoutClaim, Goto, runVars, historyVars
  <2>2. ReadHolds(w)'
    BY <2>1 DEF ReadHolds, Withdrawn, AckSteps
  <2> QED
    BY <2>1, <2>2, OneActorKeeps DEF Undisturbed, NothingStale
<1>2. CASE WorkerStops(w) \/ TimeoutFails(w)
  <2>1. /\ pc'[w] = "done" /\ \A b \in Actors \ {w} : pc'[b] = pc[b]
        /\ UNCHANGED <<overlap, stale, refStale>>
    BY <1>2 DEF WorkerStops, TimeoutFails, Raises, Goto, runVars
  <2>2. ReadHolds(w)'
    BY <2>1 DEF ReadHolds, Withdrawn, AckSteps
  <2>3. CASE Busy(w)
    BY <2>1, <2>2, <2>3, OneActorKeeps DEF Undisturbed, NothingStale
  <2>4. CASE ~Busy(w)
    <3>1. \A b \in Actors : Busy(b)' => Busy(b) /\ pc'[b] = pc[b] /\ b # w
      BY <2>1, <2>4 DEF Busy
    <3>2. UNCHANGED <<state, ref, pet, seen, seenRef>>
      BY <1>2 DEF WorkerStops, TimeoutFails, storeVars
    <3>3. \A b \in Actors : ReadHolds(b) => ReadHolds(b)'
      BY <2>1, <2>2, <3>2 DEF ReadHolds
    <3> QED
      BY <2>1, <3>1, <3>3 DEF Undisturbed, OneAtWork, NothingStale
  <2> QED
    BY <2>3, <2>4
<1>3. CASE TimeoutStep(w)
  <2>1. Busy(w) /\ UNCHANGED overlap /\ \A b \in Actors \ {w} : pc'[b] = pc[b]
    BY <1>3 DEF TimeoutStep, TimeoutRead, TimeoutSave, TimeoutEvent, Returns, Raises, Goto,
       runVars, Busy
  <2> SUFFICES ASSUME ~overlap PROVE ReadHolds(w)' /\ NothingStale'
    BY <2>1, OneActorKeeps
  <2>2. ReadHolds(w) /\ NothingStale /\ pet[w] \in Petitions
    BY DEF Undisturbed
  <2>3. CASE TimeoutRead(w)
    <3>1. /\ UNCHANGED <<ref, pet, stale, refStale>> /\ seenRef'[w] = ref[pet[w]]
          /\ pc'[w] \in {"done", "exp_save"}
      BY <2>3 DEF TimeoutRead, Returns, Goto, storeVars, historyVars
    <3> QED
      BY <2>2, <3>1 DEF ReadHolds, NothingStale, Withdrawn, AckSteps
  <2>4. CASE TimeoutSave(w)
    <3>1. pc'[w] \in {"done", "exp_event"} /\ stale' = stale
      BY <2>4 DEF TimeoutSave, Raises, Goto
    <3>2. \A p \in Petitions : ~refStale'[p]
      BY <2>2, <2>4 DEF TimeoutSave, WriteReferral, ReadHolds, NothingStale, HistoryTyped
    <3> QED
      BY <2>2, <3>1, <3>2 DEF ReadHolds, NothingStale, Withdrawn, AckSteps
  <2>5. CASE TimeoutEvent(w)
    <3>1. /\ UNCHANGED <<state, pet, stale, refStale>> /\ seen'[w] = state[pet[w]]
          /\ pc'[w] \in {"done", "ack_find"}
      BY <2>5 DEF TimeoutEvent, Raises, Goto, storeVars
    <3> QED
      BY <2>2, <3>1 DEF ReadHolds, NothingStale, Withdrawn
  <2> QED
    BY <1>3, <2>3, <2>4, <2>5 DEF TimeoutStep
<1> QED
  BY <1>1, <1>2, <1>3

(***************************************************************************)
(* A submission is of a petition nobody works on, a review waits for the   *)
(* others to be done, and the queue's own steps touch no petition.         *)
(***************************************************************************)
LEMMA OtherUndisturbed ==
  ASSUME Control, Undisturbed,
         \/ UNCHANGED petitionVars
         \/ \E p \in Petitions : Submit(p) \/ Review(p)
         \/ \E w \in Workers : CompletionFails(w)
  PROVE  Undisturbed'
<1>1. CASE UNCHANGED petitionVars \/ \E w \in Workers : CompletionFails(w)
  <2>1. UNCHANGED <<state, ref, stale, refStale, pc, pet, seen, seenRef, overlap>>
    BY <1>1 DEF CompletionFails, petitionVars, storeVars, actorVars, runVars, historyVars
  <2>2. \A a \in Actors : ReadHolds(a)' <=> ReadHolds(a)
    BY <2>1 DEF ReadHolds
  <2> QED
    BY <2>1, <2>2 DEF Undisturbed, OneAtWork, NothingStale, Busy
<1>2. ASSUME NEW p \in Petitions, Submit(p) PROVE Undisturbed'
  <2>1. /\ UNCHANGED <<ref, stale, refStale, pc, pet, seen, seenRef, overlap>>
        /\ state[p] = "none" /\ \A q \in Petitions \ {p} : state'[q] = state[q]
    BY <1>2 DEF Submit, actorVars, runVars, historyVars, Control, StoreTyped
  <2>2. ASSUME NEW a \in Actors, ReadHolds(a) PROVE ReadHolds(a)'
    <3>1. CASE pet[a] # p
      BY <2>1, <2>2, <3>1 DEF ReadHolds, Control, ActorsTyped
    <3>2. CASE pet[a] = p
      <4>1. ActorFits(a)
        BY DEF Control
      <4>2. pc[a] \notin {"swap", "escalate_swap", "start_session", "ref_save", "ref_state"}
                         \cup AckSteps \cup Withdrawn
        BY <2>1, <2>2, <3>2, <4>1 DEF ReadHolds, ActorFits, OpenStates
      <4> QED
        BY <2>1, <2>2, <4>2 DEF ReadHolds
    <3> QED
      BY <3>1, <3>2
  <2> QED
    BY <2>1, <2>2 DEF Undisturbed, OneAtWork, NothingStale, Busy
<1>3. ASSUME NEW p \in Petitions, Review(p) PROVE Undisturbed'
  <2>1. /\ UNCHANGED <<state, stale, refStale, pc, pet, seen, overlap>>
        /\ overlap \/ Quiet
    BY <1>3 DEF Review, actorVars, runVars, historyVars
  <2>2. ASSUME NEW a \in Actors, ~Busy(a) PROVE ReadHolds(a)'
    BY <2>1, <2>2 DEF ReadHolds, Busy, Withdrawn, AckSteps
  <2> QED
    BY <2>1, <2>2 DEF Undisturbed, OneAtWork, NothingStale, Busy, Quiet
<1> QED
  BY <1>1, <1>2, <1>3

LEMMA UndisturbedKept == Control /\ Undisturbed /\ [Next]_vars => Undisturbed'
  BY NewRequestUndisturbed, RequestUndisturbed, AckUndisturbed, WorkerUndisturbed,
     OtherUndisturbed
  DEF Next, QueueStep, vars

LEMMA UndisturbedInvariant == Spec => [](Control /\ Undisturbed)
<1>1. Init => Undisturbed
  BY DEF Init, Undisturbed, OneAtWork, NothingStale, ReadHolds, Busy, Withdrawn, AckSteps
<1>2. Control /\ Undisturbed /\ [Next]_vars => (Control /\ Undisturbed)'
  BY ControlKept, UndisturbedKept
<1> QED
  BY <1>1, <1>2, InitControl, PTL DEF Spec

(***************************************************************************)
(* Operations that do not overlap never write over what they have not      *)
(* seen, whatever fails and whoever dies: what the properties above except *)
(* as stale comes from overlap alone.                                      *)
(***************************************************************************)
THEOREM StaleOnlyByOverlap == Spec => [](overlap \/ NothingStale)
  BY UndisturbedInvariant, PTL DEF Undisturbed

(***************************************************************************)
(* What FateFinal says of one petition.                                    *)
(***************************************************************************)
FinalFor(p) ==
  state[p] \in Fates /\ state'[p] # state[p] /\ ~overlap
  => \/ state[p] = "REFERRED" /\ state'[p] = "ACKNOWLEDGED"
     \/ \E r \in Requests :
          /\ pet[r] = p /\ pc[r] = "rollback"
          /\ state[p] = "ACKNOWLEDGED" /\ state'[p] = seen[r]

LEMMA FateStep == Control /\ Undisturbed /\ [Next]_vars => \A p \in Petitions : FinalFor(p)
<1> SUFFICES ASSUME Control, Undisturbed, [Next]_vars, NEW p \in Petitions,
                    state[p] \in Fates, state'[p] # state[p], ~overlap
             PROVE  \/ state[p] = "REFERRED" /\ state'[p] = "ACKNOWLEDGED"
                    \/ \E r \in Requests :
                         /\ pet[r] = p /\ pc[r] = "rollback"
                         /\ state[p] = "ACKNOWLEDGED" /\ state'[p] = seen[r]
  BY DEF FinalFor
<1>0. /\ \A a \in Actors : ReadHolds(a) /\ ActorFits(a) /\ pet[a] \in Petitions
      /\ state \in [Petitions -> PetitionState] /\ Requests \subseteq Actors
  BY DEF Undisturbed, Control, ActorsTyped, StoreTyped, Actors
<1>1. ASSUME NEW q \in Petitions, Submit(q) PROVE FALSE
  BY <1>0, <1>1 DEF Submit, Fates
<1>2. ASSUME NEW r \in Requests,
             WithdrawSwap(r) \/ EscalateSwap(r) \/ ReferState(r) \/ StartSession(r)
      PROVE  FALSE
  <2>1. pet[r] = p
    BY <1>0, <1>2 DEF WithdrawSwap, EscalateSwap, ReferState, StartSession, Write
  <2>2. state[p] = seen[r]
    BY <1>0, <1>2, <2>1 DEF WithdrawSwap, EscalateSwap, ReferState, StartSession, ReadHolds
  <2>3. seen[r] \in OpenStates
    BY <1>0, <1>2 DEF WithdrawSwap, EscalateSwap, ReferState, StartSession, ActorFits, OpenStates
  <2> QED
    BY <2>2, <2>3 DEF OpenStates, Fates
<1>3. ASSUME NEW r \in Requests, WithdrawRollback(r)
      PROVE  /\ pet[r] = p /\ pc[r] = "rollback"
             /\ state[p] = "ACKNOWLEDGED" /\ state'[p] = seen[r]
  BY <1>0, <1>3 DEF WithdrawRollback, RolledBack, ReadHolds, Withdrawn
<1>4. ASSUME NEW a \in Actors, AckWrite(a)
      PROVE  state[p] = "REFERRED" /\ state'[p] = "ACKNOWLEDGED"
  <2>1. pet[a] = p /\ state'[p] = "ACKNOWLEDGED"
    BY <1>0, <1>4 DEF AckWrite, Write
  <2>2. state[p] \in {"DELIBERATING", "REFERRED"}
    BY <1>0, <1>4, <2>1 DEF AckWrite, ReadHolds, ActorFits, AckSteps
  <2> QED
    BY <2>1, <2>2 DEF Fates
<1> QED
  BY <1>1, <1>2, <1>3, <1>4, Frames

(***************************************************************************)
(* Without overlap a fate is final: the row of a fated petition changes    *)
(* only when a withdrawal takes back its own fate or when a referral ends  *)
(* in an acknowledgment.                                                   *)
(***************************************************************************)
THEOREM FatesFinal == Spec => FateFinal
<1>1. Control /\ Undisturbed /\ [Next]_vars => [\A p \in Petitions : FinalFor(p)]_vars
  BY FateStep
<1> QED
  BY <1>1, UndisturbedInvariant, PTL DEF Spec, FateFinal, FinalFor
=============================================================================
