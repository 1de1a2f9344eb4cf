--------------------------- MODULE MCInvestigation ---------------------------
(* Investigations of single facts without other traffic, and one under traffic. *)
EXTENDS Investigation, TLC

\* Amounts at the edge of two bands: n of 100 transactions up to 500 rupees, the others
\* above; the leading segment is the lower band
Seen(n) == 500 :> n @@ 501 :> 100 - n
Narrow == FactOf(Seen(5), 500 :> 0, TRUE, 1, 40, 90, 2)

\* Each differs from the narrow one where a rule of the gate may bite
MCFacts ==
    {Narrow,
     FactOf(Seen(5), 500 :> 1, TRUE, 1, 40, 90, 2),     \* a late transaction joined the segment
     FactOf(Seen(5), 501 :> 1, TRUE, 1, 40, 90, 2),     \* ... or only the window
     FactOf(Seen(95), 501 :> 1, TRUE, 2, 40, 90, 2),    \* ... or the next band
     [Narrow EXCEPT !.value = 51],
     [Narrow EXCEPT !.value = 101, !.exposure = 500],
     FactOf(Seen(11), 500 :> 0, TRUE, 1, 40, 90, 2),
     FactOf(Seen(25), 500 :> 0, TRUE, 1, 40, 90, 0),
     FactOf(Seen(26), 500 :> 0, TRUE, 1, 40, 90, 2),
     FactOf(Seen(5), 501 :> 0, FALSE, 1, 40, 90, 2)}    \* no segment: the whole window

Setting(f, first, traffic, keyed, durable, bound) ==
    [facts |-> f, production |-> first, traffic |-> traffic, keyed |-> keyed,
     durable |-> durable, autostart |-> TRUE, trouble |-> bound]

Rule == "temporary_defensive_rule"

MCSettings ==
    {Setting(f, a, {}, FALSE, TRUE, 3) : f \in MCFacts, a \in ResponseActions}
    \cup {Setting(Narrow, None, {}, FALSE, FALSE, 2)}
    \cup {Setting(Narrow, Rule, {}, TRUE, TRUE, 2)}
    \cup {Setting(Narrow, Rule, {"primary", "secondary"}, TRUE, TRUE, 1)}
=============================================================================
