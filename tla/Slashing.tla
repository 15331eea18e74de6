------------------------------ MODULE Slashing ------------------------------
(***************************************************************************)
(* SlashingService of rinku-node/src/slashing.rs: the log of slash events  *)
(* with its local ids and its cap, double-sign evidence and its expiry,    *)
(* the count of consecutive liveness failures, and the snapshot that a     *)
(* restart loads and a peer's sync merges.  The unbonding queue, which no  *)
(* caller feeds, and the total_slashed statistic are left out.             *)
(*                                                                         *)
(* The methods are functions of the service's state `sl`, so that callers  *)
(* under the same lock compose them; `clock` is the wall clock.            *)
(***************************************************************************)
EXTENDS Integers, Sequences, FiniteSets, FiniteSetsExt, SequencesExt, Maps, TLC

CONSTANTS
  Offender, Height, Hash,
  StakeAmounts,               \* stakes passed to the slashing methods
  EventCap, EventKeep,        \* 1000 and 500
  LIVENESS_MISS_THRESHOLD,
  DOUBLE_SIGN_EVIDENCE_EXPIRY, LIVENESS_REPEAT_WINDOW,
  MaxClock, MaxEvents   \* bounds

VARIABLES sl,        \* SlashingService
          clock,
          saved,     \* the SlashingSnapshot a restart loads
          peer,      \* the service of another node, whose snapshot is merged
          accepted,  \* ghost: submissions accepted, per offence
          punished   \* ghost: DoubleSign slashes from evidence, per offence

slVars == <<sl, clock, saved, peer, accepted, punished>>

Percent(reason) ==
  CASE reason = "DoubleSign" -> 15
    [] reason \in {"InvalidCheckpoint", "ReceiptTampering"} -> 25
    [] reason = "InvalidProof" -> 20
    [] reason = "InvalidWitness" -> 15
    [] reason = "LivenessFailure" -> 5
    [] reason = "LivenessRepeat" -> 10

(* (amount as f64 * percent).round() *)
Rounded(amount, percent) == (2 * amount * percent + 100) \div 200

NewService ==
  [events |-> <<>>, liveness |-> <<>>, evidence |-> <<>>,
   next_id |-> 1]

Capped(events) ==
  IF Len(events) > EventCap
  THEN SubSeq(events, Len(events) - EventKeep + 1, Len(events)) ELSE events

Slash(s, v, stake, reason) ==
  IF stake = 0 THEN s
  ELSE [s EXCEPT !.events = Capped(Append(@, [id |-> s.next_id, validator |-> v, reason |-> reason,
                                              amount |-> Rounded(stake, Percent(reason))])),
                 !.next_id = @ + 1]

(* The third failure in a row is a LivenessFailure; a later one less than  *)
(* a window after its predecessor is a LivenessRepeat.                     *)
RecordLivenessFailure(s, v, stake) ==
  LET record == GetOr(s.liveness, v, [count |-> 0, last |-> clock])
      n == record.count + 1
      counted == [s EXCEPT !.liveness = Insert(@, v, [count |-> n, last |-> clock])]
  IN IF n < LIVENESS_MISS_THRESHOLD THEN counted
     ELSE Slash(counted, v, stake,
                IF n > LIVENESS_MISS_THRESHOLD /\ clock - record.last < LIVENESS_REPEAT_WINDOW
                THEN "LivenessRepeat" ELSE "LivenessFailure")

ResetLivenessCounter(s, v) == [s EXCEPT !.liveness = Without(@, {v})]

Offence(v, h, h1, h2) == [validator |-> v, height |-> h, hashes |-> {h1, h2}]
Offences == {Offence(v, h, h1, h2) : v \in Offender, h \in Height, h1 \in Hash, h2 \in Hash}
Reported(s) == {s.evidence[i].offence : i \in DOMAIN s.evidence}

(* Equal hashes are no evidence; {a, b} and {b, a} are the same evidence. *)
AcceptsEvidence(s, o) == Cardinality(o.hashes) = 2 /\ o \notin Reported(s)

SubmitDoubleSignEvidence(s, o) ==
  IF AcceptsEvidence(s, o)
  THEN [s EXCEPT !.evidence = Append(@, [offence |-> o, at |-> clock, processed |-> FALSE])]
  ELSE s

Expired(e) == clock - e.at > DOUBLE_SIGN_EVIDENCE_EXPIRY
ToSlash(s) == SelectSeq(s.evidence, LAMBDA e : ~e.processed /\ ~Expired(e))

ProcessEvidence(s, stake) ==
  LET slashed == FoldLeft(LAMBDA t, e : Slash(t, e.offence.validator, stake, "DoubleSign"),
                          s, ToSlash(s))
      done == [i \in DOMAIN s.evidence |-> [s.evidence[i] EXCEPT !.processed = TRUE]]
  IN [slashed EXCEPT !.evidence =
        SelectSeq(done, LAMBDA e : clock - e.at < DOUBLE_SIGN_EVIDENCE_EXPIRY)]

Snapshot(s) ==
  [events |-> s.events, liveness |-> s.liveness]

(* Mutant: ids start again at the number of events kept. *)
FromJsonCounting(p) ==
  [events |-> p.events, liveness |-> p.liveness, evidence |-> <<>>, next_id |-> Len(p.events) + 1]

(* from_json: evidence is not in the snapshot; ids resume after the highest. *)
FromJson(p) ==
  [events |-> p.events, liveness |-> p.liveness, evidence |-> <<>>,
   next_id |-> 1 + Max({0} \cup {p.events[i].id : i \in DOMAIN p.events})]

Ids(events) == {events[i].id : i \in DOMAIN events}

MergeFrom(s, p) ==
  LET fresh == SelectSeq(p.events, LAMBDA e : e.id \notin Ids(s.events))
      newer == {v \in DOMAIN p.liveness :
                  v \notin DOMAIN s.liveness \/ p.liveness[v].count > s.liveness[v].count}
  IN [s EXCEPT !.events = @ \o fresh,
               !.next_id = Max({@} \cup {fresh[i].id + 1 : i \in DOMAIN fresh}),
               !.liveness = Restrict(p.liveness, newer) @@ @]

-----------------------------------------------------------------------------
(* The service on its own: its methods in any order, a peer that slashes   *)
(* and numbers its events by itself, restarts and merges.                  *)

SlashingInit ==
  /\ sl = NewService
  /\ clock = 0
  /\ saved = Snapshot(NewService)
  /\ peer = NewService
  /\ accepted = [o \in Offences |-> 0]
  /\ punished = [o \in Offences |-> 0]

Ghosts == <<accepted, punished>>
Step(s) == sl' = s /\ UNCHANGED <<clock, saved, peer, Ghosts>>
Room(s) == s.next_id <= MaxEvents

SlashOffender(v, stake, reason) == Room(sl) /\ Step(Slash(sl, v, stake, reason))

LivenessFailure(v, stake) == Room(sl) /\ Step(RecordLivenessFailure(sl, v, stake))

Signed(v) == v \in DOMAIN sl.liveness /\ Step(ResetLivenessCounter(sl, v))

SubmitEvidence(o) ==
  /\ accepted[o] < 2
  /\ sl' = SubmitDoubleSignEvidence(sl, o)
  /\ accepted' = [accepted EXCEPT ![o] = @ + IF AcceptsEvidence(sl, o) THEN 1 ELSE 0]
  /\ UNCHANGED <<clock, saved, peer, punished>>

ProcessDoubleSignEvidence(stake) ==
  /\ sl.evidence # <<>>
  /\ Room(sl)
  /\ sl' = ProcessEvidence(sl, stake)
  /\ punished' = [o \in Offences |-> punished[o] + Cardinality({i \in DOMAIN ToSlash(sl) : ToSlash(sl)[i].offence = o})]
  /\ UNCHANGED <<clock, saved, peer, accepted>>

SaveSnapshot == saved' = Snapshot(sl) /\ UNCHANGED <<sl, clock, peer, Ghosts>>

Reload == sl' = FromJson(saved) /\ UNCHANGED <<clock, saved, peer, Ghosts>>

PeerSlashes(v, stake) ==
  /\ Room(peer)
  /\ peer' = Slash(peer, v, stake, "InvalidCheckpoint")
  /\ UNCHANGED <<sl, clock, saved, Ghosts>>

MergePeer == Step(MergeFrom(sl, Snapshot(peer)))

Tick == clock < MaxClock /\ clock' = clock + 1 /\ UNCHANGED <<sl, saved, peer, Ghosts>>

SlashingNext ==
  \/ \E v \in Offender, n \in StakeAmounts :
       SlashOffender(v, n, "InvalidCheckpoint") \/ LivenessFailure(v, n) \/ PeerSlashes(v, n)
  \/ \E v \in Offender : Signed(v)
  \/ \E o \in Offences : SubmitEvidence(o)
  \/ \E n \in StakeAmounts : ProcessDoubleSignEvidence(n)
  \/ SaveSnapshot \/ Reload \/ MergePeer \/ Tick

-----------------------------------------------------------------------------

(* Slash ids stay unique and the next id stays unused through the capping  *)
(* of the log, a restart from an older snapshot and a merge of a peer that *)
(* numbers its own events.                                                 *)
SlashIdsUnique ==
  /\ Cardinality(Ids(sl.events)) = Len(sl.events)
  /\ \A id \in Ids(sl.events) : id < sl.next_id

(* Each accepted submission of double-sign evidence is slashed at most     *)
(* once, and one offence never has two entries in the evidence list, in    *)
(* whichever order its two hashes are reported.                            *)
EvidenceSlashedOnce ==
  /\ Cardinality(Reported(sl)) = Len(sl.evidence)
  /\ \A o \in Offences : punished[o] <= accepted[o]

(* The slash log and the evidence list keep one entry per event, across    *)
(* restarts and merges.                                                    *)
SlashLogSound == SlashIdsUnique /\ EvidenceSlashedOnce
=============================================================================
