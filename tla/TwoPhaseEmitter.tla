--------------------------- MODULE TwoPhaseEmitter ---------------------------
(***************************************************************************)
(* The two-phase event emitter and the orphan intent detector.             *)
(*                                                                         *)
(* Every consequential operation appends an intent to the governance       *)
(* ledger before it starts and one outcome (commit or failure) after it.   *)
(* The emitter remembers the unresolved intents in a dictionary of its own *)
(* process; the detector resolves the ones that have grown too old with a  *)
(* failure whose reason is ORPHAN_TIMEOUT ("orphan" below).  The ledger is *)
(* durable, the dictionary is not.                                         *)
(*                                                                         *)
(* An emission checks the dictionary, awaits the ledger, and only then     *)
(* deletes its entry: check and append are two steps here, and the other   *)
(* party may run between them.                                             *)
(*                                                                         *)
(* A call and the correlation id of its intent are the same value: each    *)
(* call emits one intent.                                                  *)
(***************************************************************************)
CONSTANTS
  Calls,     \* the calls of the services, and their correlation ids
  Aging      \* the calls whose intent may outlive orphan_timeout

ASSUME AgingAssumption == Aging \subseteq Calls

VARIABLES
  intents,   \* ledger: the intents appended
  outcome,   \* ledger: the outcomes appended for each intent
  pending,   \* _pending_intents, in the memory of the emitter
  aged,      \* the intents older than orphan_timeout
  orphans,   \* what the running scan of the detector has still to resolve
  resolving, \* the intents whose failure the detector is now appending
  lost       \* history: the entries of _pending_intents lost in a restart

emitter == <<intents, outcome, pending, aged, orphans, resolving, lost>>

Outcome == {"commit", "failure", "orphan"}

EmitterTypeOK ==
  /\ intents \subseteq Calls
  /\ outcome \in [Calls -> SUBSET Outcome]
  /\ pending \subseteq Calls
  /\ aged \subseteq Aging
  /\ orphans \subseteq Calls
  /\ resolving \subseteq Calls
  /\ lost \subseteq Calls

EmitterInit ==
  /\ intents = {}
  /\ outcome = [c \in Calls |-> {}]
  /\ pending = {}
  /\ aged = {}
  /\ orphans = {}
  /\ resolving = {}
  /\ lost = {}

-----------------------------------------------------------------------------
(***************************************************************************)
(* emit_intent: append, then register.                                     *)
(***************************************************************************)
EmitIntent(c) ==
  /\ intents' = intents \cup {c}
  /\ pending' = pending \cup {c}
  /\ UNCHANGED <<outcome, aged, orphans, resolving, lost>>

\* Mutant: the resolved intent stays in _pending_intents.
AppendOutcomeKeeps(c, kind) ==
  /\ outcome' = [outcome EXCEPT ![c] = @ \cup {kind}]
  /\ pending' = pending

(***************************************************************************)
(* The end of emit_commit and emit_failure: the outcome is in the ledger   *)
(* and the entry is deleted.  When the entry is gone by then the deletion  *)
(* raises KeyError, after the append.                                      *)
(***************************************************************************)
AppendOutcome(c, kind) ==
  /\ outcome' = [outcome EXCEPT ![c] = @ \cup {kind}]
  /\ pending' = pending \ {c}

(***************************************************************************)
(* A restart of the process: the dictionary and a running scan are lost.   *)
(***************************************************************************)
EmitterCrash ==
  /\ pending' = {}
  /\ orphans' = {}
  /\ resolving' = {}
  /\ lost' = lost \cup pending
  /\ UNCHANGED <<intents, outcome, aged>>

-----------------------------------------------------------------------------
(***************************************************************************)
(* Time passes orphan_timeout for an unresolved intent.                    *)
(***************************************************************************)
Age(c) ==
  /\ c \in (intents \cap Aging) \ aged
  /\ aged' = aged \cup {c}
  /\ UNCHANGED <<intents, outcome, pending, orphans, resolving, lost>>

\* Mutant: every pending intent is taken for an orphan.
OrphanScanAll ==
  /\ orphans = {} /\ resolving = {}
  /\ pending # {}
  /\ orphans' = pending
  /\ UNCHANGED <<intents, outcome, pending, aged, resolving, lost>>

(***************************************************************************)
(* scan_and_resolve_orphans: a snapshot of the pending intents that are    *)
(* too old, ...                                                            *)
(***************************************************************************)
OrphanScan ==
  /\ orphans = {} /\ resolving = {}
  /\ pending \cap aged # {}
  /\ orphans' = pending \cap aged
  /\ UNCHANGED <<intents, outcome, pending, aged, resolving, lost>>

\* Mutant: the check for an intent already resolved is inverted.
OrphanCheckInverted(c) ==
  /\ resolving = {}
  /\ c \in orphans
  /\ orphans' = orphans \ {c}
  /\ resolving' = {c} \ pending
  /\ UNCHANGED <<intents, outcome, pending, aged, lost>>

(***************************************************************************)
(* ... then one emit_failure after the other.  It raises, and the scan     *)
(* goes on, when the intent has been resolved in the meantime.             *)
(***************************************************************************)
OrphanCheck(c) ==
  /\ resolving = {}
  /\ c \in orphans
  /\ orphans' = orphans \ {c}
  /\ resolving' = {c} \cap pending
  /\ UNCHANGED <<intents, outcome, pending, aged, lost>>

\* Mutant: the reason of the failure is written as its kind.
OrphanAppendReason(c) ==
  /\ c \in resolving
  /\ AppendOutcome(c, "ORPHAN_TIMEOUT")
  /\ resolving' = {}
  /\ UNCHANGED <<intents, aged, orphans, lost>>

OrphanAppend(c) ==
  /\ c \in resolving
  /\ AppendOutcome(c, "orphan")
  /\ resolving' = {}
  /\ UNCHANGED <<intents, aged, orphans, lost>>

\* Mutant: the entry is deleted before the append is known to succeed.
OrphanAppendFailsDeleted(c) ==
  /\ c \in resolving
  /\ resolving' = {}
  /\ pending' = pending \ {c}
  /\ UNCHANGED <<intents, outcome, aged, orphans, lost>>

(***************************************************************************)
(* The ledger refuses the failure event: swallowed, the intent stays       *)
(* pending for a later scan.                                               *)
(***************************************************************************)
OrphanAppendFails(c) ==
  /\ c \in resolving
  /\ resolving' = {}
  /\ UNCHANGED <<intents, outcome, pending, aged, orphans, lost>>
=============================================================================
