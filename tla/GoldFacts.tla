----------------------------- MODULE GoldFacts -----------------------------
(* What the gold engine computes (de/gold): the facts of one window, from    *)
(* the silver rows of that window and of the one before it, as the processor *)
(* reads them in one snapshot.  GoldRuntime models when a window closes and  *)
(* how its facts are stored; here a window closes at any time after the one  *)
(* before it, and rows may come late.                                        *)
(*                                                                           *)
(* Metrics, shares and scores are integers, in hundredths of their unit; a   *)
(* mean is rounded down to a hundredth.  The metrics that no score reads     *)
(* (pcu, waiting vehicles, arrival rate) are averaged like the others.       *)
EXTENDS Integers, FiniteSets, FiniteSetsExt, Sequences

CONSTANTS
    Nodes,      \* intersection ids, as numbers: their order breaks ties
    Dirs,       \* configured directions
    Windows,    \* number of windows: 0 .. Windows - 1
    Slots,      \* rows expected of a direction in a window (size \div cadence)
    Batches     \* sets of silver rows that may come, each at once; none comes
                \* more often than the cadence the processor is configured with

VARIABLES
    silver,     \* rows in the silver tables
    taken,      \* window -> the rows it was closed with
    facts       \* window -> {}, or its result as a singleton

vars == <<silver, taken, facts>>
AnyRow == UNION Batches
Window == 0 .. Windows - 1
None == -1      \* NULL, of a score, a rank or a change
-----------------------------------------------------------------------------
\* Quality: a parent is as bad as the worst of its parts.
Precedence == <<"VALID", "VALID_WITH_GAPS", "PARTIAL", "LOW_COVERAGE",
                "INSUFFICIENT_DATA", "UNSUPPORTED", "CONFLICTED">>
Badness(q) == CHOOSE i \in DOMAIN Precedence : Precedence[i] = q

Normalize(q) ==
    IF q = "VALID_WITH_DEFAULT" THEN "VALID_WITH_GAPS"
    ELSE IF \E i \in DOMAIN Precedence : Precedence[i] = q THEN q ELSE "UNSUPPORTED"

Combine_mutant(S) == Precedence[Min({Badness(Normalize(q)) : q \in S})]
Combine(S) == Precedence[Max({Badness(Normalize(q)) : q \in S})]
NumericAllowed(q) == Badness(Normalize(q)) <= 4

Coverage(valid, expected) ==
    IF 100 * valid >= 80 * expected /\ expected > 0 THEN "VALID"
    ELSE IF 100 * valid >= 30 * expected /\ expected > 0 THEN "LOW_COVERAGE"
    ELSE "INSUFFICIENT_DATA"

\* The window is closed, not a revision, and of age zero.
Freshness(q) ==
    IF q \in {"CONFLICTED", "VALID"}
    THEN IF q = "VALID" THEN "CLOSED_COMPLETE" ELSE q
    ELSE IF NumericAllowed(q) THEN "CLOSED_WITH_GAPS" ELSE "INSUFFICIENT_DATA"

\* A row names what it lacks: only a traffic row brings a status of its own.
DerivedQuality(r) ==
    IF r.lacks = "required" THEN "INSUFFICIENT_DATA"
    ELSE IF r.kind = "traffic" THEN r.quality
    ELSE IF r.lacks = "optional" THEN "VALID_WITH_GAPS" ELSE "VALID"

Canonical(d) == IF d \in Dirs THEN d ELSE "UNKNOWN"

Input(r) == [r EXCEPT !.dir = Canonical(@), !.quality = DerivedQuality(r)]

\* A number that is negative or not finite rejects the row.
Accepted(R) == {Input(r) : r \in {r \in R : r.finite}}

SameIdentity(r, s) ==
    /\ r.kind = s.kind /\ r.node = s.node /\ r.dir = s.dir
    /\ r.win = s.win /\ r.slot = s.slot

\* Two payloads under one identity: the processor reports the window
\* CONFLICTED and computes nothing.
Conflicting(R) == \E r, s \in R : SameIdentity(r, s) /\ r.hash # s.hash

Latest(G) == CHOOSE r \in G : \A s \in G : s.slot <= r.slot
-----------------------------------------------------------------------------
Sum(G, f(_)) == MapThenSumSet(f, G)
Mean(G, f(_)) == Sum(G, f) \div Cardinality(G)
Most(G, f(_)) == Max({f(x) : x \in G})
Clamp(x) == IF x < 0 THEN 0 ELSE IF x > 10000 THEN 10000 ELSE x
RoundHalfUp(x) == (x + 50) \div 100

Group(R, kind, n, w) == {r \in R : r.kind = kind /\ r.node = n /\ r.win = w}
Numeric(G) == {r \in G : NumericAllowed(r.quality)}
Qualities(G) == {r.quality : r \in G}
\* expected_rows_for: one row of each direction of each intersection a slot.
Expected_mutant(nodes, dirs) == Slots
Expected(nodes, dirs) == Cardinality(nodes) * Cardinality(dirs) * Slots
GapsIf(condition, q) == IF condition /\ q = "VALID" THEN "VALID_WITH_GAPS" ELSE q

\* A direction's window, {} without a row that may be counted.
TrafficFact(n, d, rows, valid) ==
    LET expected == IF d \in Dirs THEN Expected({n}, {d}) ELSE Cardinality(rows)
    IN  [dir |-> d, valid |-> valid,
         count |-> Mean(valid, LAMBDA r : r.count),
         speed |-> Mean(valid, LAMBDA r : r.speed),
         queue |-> Mean(valid, LAMBDA r : r.queue),
         most |-> Most(valid, LAMBDA r : r.queue),
         occupancy |-> Mean(valid, LAMBDA r : r.occupancy),
         spills |-> Cardinality({r \in valid : r.flag}),
         latest |-> Latest(valid).queue,
         quality |-> GapsIf(d = "UNKNOWN",
             Combine(Qualities(rows) \cup {Coverage(Cardinality(valid), expected)}))]
Traffic(R, n, w) ==
    UNION {LET rows == {r \in Group(R, "traffic", n, w) : r.dir = d}
           IN  IF Numeric(rows) = {} THEN {} ELSE {TrafficFact(n, d, rows, Numeric(rows))}
           : d \in Dirs \cup {"UNKNOWN"}}

\* The intersection's own state rows.
StateFact(n, rows, valid) ==
    [node |-> n, total |-> Latest(valid).count,
     incident |-> \E r \in valid : r.flag,
     quality |-> Combine(Qualities(rows) \cup
                         {Coverage(Cardinality(valid), Expected({n}, {""}))})]
State(R, n, w) ==
    LET rows == Group(R, "state", n, w)
    IN  IF Numeric(rows) = {} THEN {} ELSE {StateFact(n, rows, Numeric(rows))}

\* Shares of the statuses of a direction's signal, the dominant one (the
\* least, of two that are as frequent), and the queue it served.
SignalFact(n, d, rows, valid, served) ==
    LET times(x) == Cardinality({r \in valid : r.status = x})
        share(x) == (10000 * times(x)) \div Cardinality(valid)
    IN  [node |-> n, dir |-> d,
         green |-> share("GREEN"), red |-> share("RED"), yellow |-> share("YELLOW"),
         dominant |-> CHOOSE x \in {r.status : r \in valid} :
                          \A y \in {r.status : r \in valid} :
                              times(y) < times(x) \/ (times(y) = times(x)
                                  /\ (x = "GREEN" \/ y = "YELLOW" \/ x = y)),
         served |-> served,
         quality |-> Combine(Qualities(rows) \cup
                             {Coverage(Cardinality(valid), Expected({n}, {d}))})]
Signal(R, n, w) ==
    UNION {LET rows == {r \in Group(R, "signal", n, w) : r.dir = d}
               served == {t.queue : t \in {t \in Traffic(R, n, w) : t.dir = d}}
           IN  IF Numeric(rows) = {} THEN {}
               ELSE {SignalFact(n, d, rows, Numeric(rows), served)}
           : d \in Dirs}

\* The directions rolled up into the intersection: speed is weighted by the
\* vehicles, the other means are not.
RolledUp(n, items, eligible, valid, weight) ==
    [node |-> n,
     queue |-> Mean(eligible, LAMBDA t : t.queue),
     most |-> Most(eligible, LAMBDA t : t.most),
     speed |-> IF weight > 0 THEN Sum(eligible, LAMBDA t : t.speed * t.count) \div weight
               ELSE Mean(eligible, LAMBDA t : t.speed),
     occupancy |-> Mean(eligible, LAMBDA t : t.occupancy),
     spill |-> (10000 * Sum(eligible, LAMBDA t : t.spills)) \div valid,
     weight |-> weight,
     rows |-> UNION {t.valid : t \in items},
     quality |-> GapsIf(\E t \in items : t.dir = "UNKNOWN",
                        Combine({t.quality : t \in eligible}
                                \cup {Coverage(valid, Expected({n}, Dirs))}))]
RollupOf(n, items) ==
    LET eligible == {t \in items : t.dir \in Dirs /\ NumericAllowed(t.quality)}
    IN  IF eligible = {} THEN {}
        ELSE {RolledUp(n, items, eligible, Sum(eligible, LAMBDA t : Cardinality(t.valid)),
                       Sum(eligible, LAMBDA t : t.count))}
Rollup(R, n, w) == RollupOf(n, Traffic(R, n, w))
-----------------------------------------------------------------------------
\* The four factors of the congestion score, in ten-thousandths of a point.
Factors(u) == <<35 * Clamp(u.most), 30 * Clamp(10000 - 2 * u.speed),
                20 * Clamp(u.occupancy), 15 * Clamp(u.spill)>>

Congestion(u) ==
    IF ~NumericAllowed(u.quality) THEN None
    ELSE LET f == Factors(u) IN RoundHalfUp(f[1] + f[2] + f[3] + f[4])

\* The rounded contributions are listed beside the rounded score, and
\* assert_contribution_tolerance lets them differ by two hundredths.
Mismatch(f) ==
    LET listed == RoundHalfUp(f[1]) + RoundHalfUp(f[2]) + RoundHalfUp(f[3]) + RoundHalfUp(f[4])
        score == RoundHalfUp(f[1] + f[2] + f[3] + f[4])
    IN  IF listed < score THEN score - listed ELSE listed - score

\* before is {} when the engine has no roll-up of the window before.
Growth(u, before) ==
    IF before = {} THEN 0 ELSE Clamp(2 * (u.most - (CHOOSE p \in before : TRUE).most))

PriorityQuality(u, states) == Combine({u.quality} \cup {s.quality : s \in states})

Priority(u, states, before) ==
    LET quality == PriorityQuality(u, states)
        incident == IF \E s \in states : s.incident THEN 10000 ELSE 0
        penalty == IF quality = "VALID" THEN 0 ELSE 10000
        raw == 45 * Congestion(u) + 20 * Clamp(u.most) + 15 * Growth(u, before)
               + 10 * Clamp(u.spill) + 10 * incident - 10 * penalty
    IN  IF Congestion(u) = None \/ ~NumericAllowed(quality) THEN None
        ELSE RoundHalfUp(IF raw < 0 THEN 0 ELSE IF raw > 1000000 THEN 1000000 ELSE raw)

\* rank_priorities: by score, congestion, queue, and then the id.
Ahead_mutant(a, b) ==
    \/ a.priority > b.priority
    \/ a.priority = b.priority /\ a.congestion > b.congestion
    \/ a.priority = b.priority /\ a.congestion = b.congestion /\ a.most > b.most
Ahead(a, b) ==
    \/ a.priority > b.priority
    \/ a.priority = b.priority /\ a.congestion > b.congestion
    \/ a.priority = b.priority /\ a.congestion = b.congestion /\ a.most > b.most
    \/ /\ a.priority = b.priority /\ a.congestion = b.congestion /\ a.most = b.most
       /\ a.node < b.node

Ranked(S) ==
    LET scored == {k \in S : k.priority # None}
        rank(k) == IF k \in scored THEN 1 + Cardinality({m \in scored : Ahead(m, k)}) ELSE None
    IN  {[kpi |-> k, rank |-> rank(k)] : k \in S}

Kpi(n, u, states, before) ==
    [node |-> n, congestion |-> Congestion(u), most |-> u.most,
     priority |-> Priority(u, states, before), quality |-> u.quality]
Kpis(R, w) ==
    Ranked(UNION {{Kpi(n, u, State(R, n, w), Rollup(R, n, w - 1)) : u \in Rollup(R, n, w)}
                  : n \in Nodes})

\* One overview of the window.  What is expected of it counts the
\* intersections with a row, rejected or not, in one of the two windows.
Overview(eligible, states, kpis, heard) ==
    LET valid == Sum(eligible, LAMBDA u : Cardinality(u.rows))
    IN  [observed |-> Cardinality(eligible),
         vehicles |-> Sum(states, LAMBDA s : s.total),
         congested |-> Cardinality({u \in eligible : Congestion(u) >= 7000}),
         incidents |-> Cardinality({s \in states : s.incident}),
         top |-> {k.kpi.node : k \in {k \in kpis : k.rank = 1 /\ k.kpi.node \in {u.node : u \in eligible}}},
         quality |-> Combine({u.quality : u \in eligible} \cup {s.quality : s \in states}
                             \cup {Coverage(valid, Expected(heard, Dirs))})]
NetworkOf(R, kpis, heard, w, eligible) ==
    IF eligible = {} THEN {}
    ELSE {Overview(eligible, UNION {State(R, u.node, w) : u \in eligible}, kpis, heard)}
Network(R, kpis, heard, w) ==
    NetworkOf(R, kpis, heard, w,
              {u \in UNION {Rollup(R, n, w) : n \in Nodes} : NumericAllowed(u.quality)})

\* A value against the same value of the window before.
Compare(current, previous) ==
    [current |-> current, previous |-> previous,
     change |-> IF None \in {current, previous} THEN "UNCHANGED"
                ELSE IF current > previous THEN "INCREASE"
                ELSE IF current < previous THEN "DECREASE" ELSE "UNCHANGED",
     status |-> IF None \in {current, previous} \/ previous = 0
                THEN "NOT_COMPARABLE" ELSE "COMPARABLE"]

\* The engine computes the window before from the rows it was given: it has
\* none of the window before that one.
Comparisons(kpis, earlier) ==
    LET before(n) == {k.kpi : k \in {k \in earlier : k.kpi.node = n}}
        value(S, f(_)) == IF S = {} THEN None ELSE f(CHOOSE k \in S : TRUE)
    IN  {[node |-> k.kpi.node,
          congestion |-> Compare(k.kpi.congestion, value(before(k.kpi.node), LAMBDA b : b.congestion)),
          priority |-> Compare(k.kpi.priority, value(before(k.kpi.node), LAMBDA b : b.priority))]
         : k \in kpis}

\* The direction facts of the window, all that is stored of it.
Directions(R, w) ==
    UNION {{[node |-> n, dir |-> t.dir, queue |-> t.queue, quality |-> t.quality,
             fresh |-> Freshness(t.quality)] : t \in Traffic(R, n, w)} : n \in Nodes}

FactsOf(R, kpis, earlier, heard, w) ==
    [traffic |-> Directions(R, w),
     kpis |-> kpis,
     compared |-> Comparisons(kpis, earlier),
     signals |-> UNION {Signal(R, n, w) : n \in Nodes},
     network |-> Network(R, kpis, heard, w)]
Transform(source, w) ==
    LET R == Accepted(source)
    IN  FactsOf(R, Kpis(R, w), Kpis(R, w - 1), {r.node : r \in source}, w)
-----------------------------------------------------------------------------
Init ==
    /\ silver = {}
    /\ taken = [w \in Window |-> {}]
    /\ facts = [w \in Window |-> {}]

Arrive ==
    /\ \E b \in Batches : ~(b \subseteq silver) /\ silver' = silver \cup b
    /\ UNCHANGED <<taken, facts>>

\* One snapshot of the window and of the one before.
Source_mutant(w) == {r \in silver : r.win = w}
Source(w) == {r \in silver : r.win \in {w - 1, w}}

Close(w) ==
    /\ facts[w] = {}
    /\ \A v \in 0 .. w - 1 : facts[v] # {}
    /\ ~Conflicting(Source(w))
    /\ facts' = [facts EXCEPT ![w] = {Transform(Source(w), w)}]
    /\ taken' = [taken EXCEPT ![w] = Source(w)]
    /\ UNCHANGED silver

Next == Arrive \/ \E w \in Window : Close(w)
Spec == Init /\ [][Next]_vars
-----------------------------------------------------------------------------
Score == {None} \cup 0 .. 10000

TypeOK ==
    /\ silver \subseteq AnyRow
    /\ \A r \in silver : r.win \in Window /\ r.slot \in 0 .. Slots - 1
    /\ \A w \in Window : taken[w] \subseteq silver /\ Cardinality(facts[w]) <= 1
    /\ \A w \in Window : \A f \in facts[w] : \A k \in f.kpis :
        /\ {k.kpi.congestion, k.kpi.priority} \subseteq Score
        /\ k.rank \in {None} \cup 1 .. Cardinality(Nodes)

\* The priority list of a window numbers its scored intersections 1, 2, ...
\* without a gap or a tie, in the order of their scores, and the overview
\* names the first of them (calculators/priority.py, builders/network.py).
RanksAreDense ==
    \A w \in Window : \A f \in facts[w] :
        LET scored == {k \in f.kpis : k.kpi.priority # None}
        IN  /\ {k.rank : k \in scored} = 1 .. Cardinality(scored)
            /\ \A j, k \in scored : j.rank < k.rank => j.kpi.priority >= k.kpi.priority
            /\ \A o \in f.network : o.top = {k.kpi.node : k \in {k \in scored : k.rank = 1}}

\* A score is only as good as its evidence: one of a window whose rows are
\* missing, too few or contradictory is withheld, and a lesser one is marked
\* in the fact and in every fact above it (quality.py, congestion.py:24).
ScoresAreBacked ==
    \A w \in Window : \A f \in facts[w] :
        /\ \A k \in f.kpis : k.kpi.priority # None =>
              \E t \in f.traffic : t.node = k.kpi.node /\ NumericAllowed(t.quality)
        /\ \A k \in f.kpis : k.kpi.quality = "VALID" =>
              \A d \in Dirs : \E t \in f.traffic :
                  t.node = k.kpi.node /\ t.dir = d /\ t.fresh = "CLOSED_COMPLETE"
        /\ \A o \in f.network : o.quality = "VALID" =>
              \A k \in f.kpis : k.kpi.quality = "VALID"

\* What a window is compared with is what was stored of the window before,
\* unless rows of that window came late; the priority is compared with a
\* lower one, because the growth of the queue into that window is not known
\* when it is computed again (engine.py:173-184, processor.py:679).
ComparedWithStored ==
    \A w \in Window \ {0} : \A f \in facts[w], g \in facts[w - 1] :
        {r \in silver : r.win = w - 1} \subseteq taken[w - 1] =>
            \A c \in f.compared : \A k \in g.kpis : k.kpi.node = c.node =>
                /\ c.congestion.previous = k.kpi.congestion
                /\ c.priority.previous <= k.kpi.priority
                /\ (c.priority.previous < k.kpi.priority => w > 1)

\* Another good row never makes an intersection's window worse
\* (quality.py pooled_coverage, intersection_window.py:90).
MoreRowsNoWorse ==
    \A w \in Window : facts[w] = {} =>
        \A r \in AnyRow \ silver : r.kind = "traffic" /\ r.win = w /\ r.dir \in Dirs /\ r.finite
                                /\ DerivedQuality(r) = "VALID" =>
            \A u \in Rollup(Accepted(Source(w)), r.node, w) :
                \E v \in Rollup(Accepted(Source(w) \cup {r}), r.node, w) :
                    Badness(v.quality) <= Badness(u.quality)

\* The contributions an explanation lists add up to its score, so that no
\* window is refused for them (explanation.py:64-68).
ContributionsAddUp ==
    \A w \in Window : \A n \in Nodes :
        \A u \in Rollup(Accepted(taken[w]), n, w) :
            Mismatch(Factors(u)) <= 2

FactsHold == TypeOK /\ RanksAreDense /\ ScoresAreBacked /\ ComparedWithStored
             /\ MoreRowsNoWorse /\ ContributionsAddUp
=============================================================================
