------------------------------ MODULE Temporal -------------------------------
(***************************************************************************)
(* The bitemporal view of the fact log (src/graph/storage.rs and the       *)
(* temporal filter of executor.rs).                                        *)
(*                                                                         *)
(* A log record is [e, a, v, vf, vt, tc, id, on]: entity, attribute,       *)
(* value, the valid-time window [vf, vt), the transaction count, the       *)
(* transaction's wall-clock id, and whether it asserts or retracts.        *)
(***************************************************************************)
EXTENDS Integers, Sequences, FiniteSets

\* RETRACT_ALL_VALID_FROM and VALID_TIME_FOREVER.
AllFrom == -1
Forever == 9

eav_key(f) == <<f.e, f.a, f.v>>
window_key(f) == <<f.e, f.a, f.v, f.vf, f.vt>>

\* as_of is <<"none", 0>>, <<"count", n>> or <<"time", t>>.
entry_visible_as_of(f, as_of) ==
    CASE as_of[1] = "none"  -> TRUE
      [] as_of[1] = "count" -> f.tc <= as_of[2]
      [] as_of[1] = "time"  -> f.id <= as_of[2]

filter_facts_as_of(facts, as_of) == {f \in facts : entry_visible_as_of(f, as_of)}

Unscoped(f) == f.vf = AllFrom /\ f.vt = Forever

\* Does retraction r cancel assertion f?  A retraction in the same
\* transaction does, whatever their order in the batch.
Cancels(r, f) ==
    /\ ~r.on
    /\ f.tc <= r.tc
    /\ IF Unscoped(r) THEN eav_key(r) = eav_key(f) ELSE window_key(r) = window_key(f)

Superseded(facts, f) == \E g \in facts : g.on /\ window_key(g) = window_key(f) /\ g.tc > f.tc

net_asserted_facts(facts) ==
    {f \in facts : /\ f.on
                   /\ ~Superseded(facts, f)
                   /\ ~\E r \in facts : Cancels(r, f)}

\* One record per triple, the newest.
coalesce_point_in_time_facts(facts) ==
    {CHOOSE f \in {g \in facts : eav_key(g) = k} :
         \A g \in facts : eav_key(g) = k => g.tc <= f.tc
       : k \in {eav_key(f) : f \in facts}}

Covers(f, t) == f.vf <= t /\ t < f.vt

\* filter_facts_for_query after the source facts are read: valid_at is
\* <<"any", 0>> or <<"at", t>>.
ValidRelation(facts, valid_at) ==
    IF valid_at[1] = "any" THEN facts
    ELSE coalesce_point_in_time_facts({f \in facts : Covers(f, valid_at[2])})

TemporalRelation(source, as_of, valid_at) ==
    ValidRelation(net_asserted_facts(filter_facts_as_of(source, as_of)), valid_at)
=============================================================================
