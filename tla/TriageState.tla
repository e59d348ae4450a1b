---------------------------------- MODULE TriageState ----------------------------------
(* What the commands do with the local suppressions once they are loaded (triage.py).  *)
(* A suppression is [id, finding, pack, base, born, until, matched, place]: the        *)
(* fingerprint of the finding, the fingerprint of its context pack (0 when it is not   *)
(* known), the target base, and times from 1 on; matched is 0 until a gate run used    *)
(* it. A finding of one fingerprint lies in one pack. The state is the set of them, in *)
(* the order of their places; a new one is the last, with its id for a place, since    *)
(* ids grow.                                                                           *)
EXTENDS Naturals, FiniteSets

CONSTANTS
  NoBase,     \* no target base is known
  MaxActive   \* triage.max_active_suppressions

ASSUME ActiveAssumption == MaxActive \in Nat

Ids(state) == {s.id : s \in state}

Expired(s, now) == s.until <= now

\* add_or_replace_suppression: what is replaced goes without an event
AddOrReplace(state, s) == {e \in state : ~(e.finding = s.finding /\ e.base = s.base)} \cup {s}

\* remove_suppressions: the selector is an id or the fingerprint of a finding
Removed(state, selector) == {s \in state : s.id = selector \/ s.finding = selector}
Without(state, ids) == {s \in state : s.id \notin ids}

\* prune_triage_state: expired ones go, and above the limit those used longest ago; the
\* others are then in the order of their use
Lapsed(state, now) == Ids({s \in state : Expired(s, now)})
Touched(s) == IF s.matched > 0 THEN s.matched ELSE s.born
Older(s, t) == Touched(s) < Touched(t) \/ (Touched(s) = Touched(t) /\ s.place < t.place)
Recent(active) == {s \in active : Cardinality({t \in active : Older(s, t)}) < MaxActive}
Pruned(state, now) ==
  LET active == Without(state, Lapsed(state, now))
  IN IF Cardinality(active) <= MaxActive THEN active
     ELSE {[s EXCEPT !.place = Cardinality({t \in active : Older(t, s)}) + 1] : s \in Recent(active)}

\* _matching_suppression: the first one that is in force for the finding and the base
Match(state, c, base, now) ==
  LET inForce == {s \in state : /\ s.finding = c.finding /\ ~Expired(s, now)
                                /\ s.base = NoBase \/ base = NoBase \/ s.base = base}
  IN {s \in inForce : \A t \in inForce : s.place <= t.place}
Outdated(s, c) == s.pack # 0 /\ c.pack # 0 /\ s.pack # c.pack

Matched(state, ids, now) == {IF s.id \in ids THEN [s EXCEPT !.matched = now] ELSE s : s \in state}

\* Variant: a changed context pack does not matter
ApplyWhateverPack(candidates, state, base, now) ==
  LET found == {m \in candidates \X state : m[2] \in Match(state, m[1], base, now)}
  IN [hidden |-> found, stale |-> {}, state |-> Matched(state, {m[2].id : m \in found}, now)]

\* apply_suppressions: a finding is hidden by the suppression that matches it, or makes it
\* stale, and a stale one is dropped
Apply(candidates, state, base, now) ==
  LET found == {m \in candidates \X state : m[2] \in Match(state, m[1], base, now)}
      hid   == {m \in found : ~Outdated(m[2], m[1])}
      stale == {m[2].id : m \in found \ hid}
  IN [hidden |-> hid, stale |-> stale,
      state  |-> Without(Matched(state, {m[2].id : m \in hid}, now), stale)]
========================================================================================
