--------------------------- MODULE MCSessionSpace ---------------------------
(***************************************************************************)
(* The strategies of SessionSpace besides the flat one.  The file that is  *)
(* opened decides: with PAGE the session has page classes, with the others *)
(* it has the aggregators, with or without a free list.                    *)
(***************************************************************************)
EXTENDS PagedSpace, AggregatedSpace

VARIABLE strategy   \* "paged" or "aggregated"

StrategiesInit ==
    /\ strategy \in {"paged", "aggregated"}
    /\ Init
    /\ AggregatesInit
    /\ strategy = "paged" => tracked
    /\ strategy = "aggregated" => lost = 1..(InitEoa - 1) /\ \A t \in Thresholds : threshold <= t

StrategiesNext ==
    \/ strategy = "paged" /\ Next /\ UNCHANGED <<strategy, aggregates>>
    \/ strategy = "aggregated" /\ AggregatesNext /\ UNCHANGED <<strategy, vars>>

StrategiesSpec == StrategiesInit /\ [][StrategiesNext]_<<strategy, vars, aggregates>>
=============================================================================
