------------------------------ MODULE EbaReport ------------------------------
(***************************************************************************)
(* The quarterly fraud report of one country (services/eba-reporter): the  *)
(* scheduled job, with the attempts the platform gives it, and a run an    *)
(* operator starts by hand.  Both read the gold table, or the Cosmos       *)
(* aggregates when that fails, and write the same three files, one after   *)
(* the other and over those that are there.                                *)
(***************************************************************************)
EXTENDS Naturals, Sequences, FiniteSetsExt

CONSTANTS
  Tables,        \* contents the gold partition may have: sets of rows
  Attempts,      \* runs each of the two makes at most: replicaRetryLimit + 1 for the job
  MaxRewrites,   \* bound: times the gold partition is rewritten
  None           \* no fraud type, no bearer

\* AggregatedFraudRow: counts and amounts are not negative, and only a fraud type and a bearer of
\* the loss may be missing.
IsRow(r) ==
  /\ \A m \in {"tx", "value", "fraud", "fraudValue", "loss"} : r[m] \in Nat
  /\ \A d \in {"instrument", "channel", "exemption", "geo"} : r[d] # None

ASSUME EbaAssumption == \A table \in Tables : IsFiniteSet(table) /\ \A r \in table : IsRow(r)

VARIABLES
  gold,       \* rows of the partition (country, quarter) of gold.eba_report_q
  rewrites,
  aggregates, \* whether the Cosmos container holds documents of the quarter
  runs,       \* of each process: where it is and what it holds
  files       \* the reports container: of each file, the report it was rendered from

ebaVars == <<gold, rewrites, aggregates, runs, files>>

Processes == {"job", "manual"}
Kinds == <<"xlsx", "json", "parquet">>
NoFile == [id |-> <<"none", 0>>, rows |-> {}]
NoRun == [stage |-> "idle", attempt |-> 0, dry |-> FALSE, source |-> "none", rows |-> {},
          seen |-> {}, next |-> 1, crossed |-> FALSE]
-----------------------------------------------------------------------------
\* AggregatedFraudRow: fraud_count may not exceed tx_count.
ValidRow(r) == r.fraud <= r.tx

Total(rows, f) == SumFunction([r \in rows |-> r[f]])

\* df.groupby(dims).agg(sum of each measure); groups whose key is missing are dropped.
KeyOf(r, dims) == [d \in dims |-> r[d]]
Keyed(rows, dims) == {r \in rows : \A d \in dims : r[d] # None}
Group(rows, dims, measures, k) ==
  [by |-> k,
   sums |-> [m \in measures |-> Total({r \in Keyed(rows, dims) : KeyOf(r, dims) = k}, m)]]
Grouped(rows, dims, measures) ==
  {Group(rows, dims, measures, KeyOf(r, dims)) : r \in Keyed(rows, dims)}

WithFraud(rows) == {r \in rows : r.fraud > 0}
AnnexA(rows) == Grouped(rows, {"instrument", "channel"}, {"tx", "value"})
AnnexB(rows) == Grouped(WithFraud(rows), {"instrument", "channel", "type"},
                        {"fraud", "fraudValue", "loss"})
AnnexD(rows) == Grouped(WithFraud(rows), {"instrument", "bearer", "geo"}, {"loss", "fraud"})

\* Annex C adds to its sums the fraud rate of each exemption, in basis points.
AnnexC(rows) ==
  {[by |-> g.by, sums |-> g.sums,
    rate |-> IF g.sums.value = 0 THEN 0 ELSE (g.sums.fraudValue * 10000) \div g.sums.value] :
     g \in Grouped(rows, {"instrument", "exemption"}, {"tx", "value", "fraud", "fraudValue"})}

Sections(rows) == [A |-> AnnexA(rows), B |-> AnnexB(rows), C |-> AnnexC(rows), D |-> AnnexD(rows)]

\* What each file shows of a report: parquet one flat table of the annexes' rows, and one empty
\* row of annex A when there are none; the others the annexes and the totals.
Rendered(kind, rows) ==
  LET s == Sections(rows)
      flat == {<<a, g>> : a \in DOMAIN s, g \in UNION {s[b] : b \in DOMAIN s}}
  IN IF kind = "parquet"
     THEN LET shown == {x \in flat : x[2] \in s[x[1]]} IN IF shown = {} THEN {"A"} ELSE shown
     ELSE <<s, [f \in {"tx", "value", "fraud", "fraudValue", "loss"} |-> Total(rows, f)]>>

\* Mutant of QuarterOf: in January the quarter is that of the new year.
QuarterOfSameYear(year, month) ==
  LET q == (month - 1) \div 3 IN IF q > 0 THEN <<year, q>> ELSE <<year, 4>>

\* The quarter the job passes: the one before that of the month, in the year it belongs to.
QuarterOf(year, month) ==
  LET q == (month - 1) \div 3 IN IF q > 0 THEN <<year, q>> ELSE <<year - 1, 4>>

\* _quarter_to_dates: first and last day.
DatesOf(quarter) ==
  <<<<quarter[1], 3 * quarter[2] - 2, 1>>,
    <<quarter[1], 3 * quarter[2], IF quarter[2] \in {1, 4} THEN 31 ELSE 30>>>>
-----------------------------------------------------------------------------
EbaInit ==
  /\ gold \in Tables /\ rewrites = 0 /\ aggregates \in BOOLEAN
  /\ runs = [p \in Processes |-> NoRun]
  /\ files = [k \in 1 .. 3 |-> NoFile]

\* The gold pipeline rewrites the partition.
Rewrite ==
  /\ rewrites < MaxRewrites
  /\ \E t \in Tables : gold' = t
  /\ rewrites' = rewrites + 1
  /\ UNCHANGED <<aggregates, runs, files>>

\* cli: the job passes neither --dry-run nor --out.
Begin(p) ==
  /\ runs[p].stage \in {"idle", "done", "failed"}
  /\ p = "job" => runs[p].stage # "done"
  /\ runs[p].attempt < Attempts[p]
  /\ \E dry \in IF p = "job" THEN {FALSE} ELSE BOOLEAN :
       runs' = [runs EXCEPT ![p] = [NoRun EXCEPT !.stage = "load", !.attempt = runs[p].attempt + 1,
                                                 !.dry = dry]]
  /\ UNCHANGED <<gold, rewrites, aggregates, files>>

\* load_rows.  Whatever read_from_lakehouse raises in its last attempt, a row that does not
\* validate included, or EBA_USE_COSMOS_FALLBACK, leads to Cosmos: there the query may fail (no
\* endpoint, no answer), the system fields of a document are not those of a row, and no
\* documents are no rows.
Load(p) ==
  /\ runs[p].stage = "load"
  /\ \/ /\ \A r \in gold : ValidRow(r)
        /\ runs' = [runs EXCEPT ![p].stage = "loaded", ![p].source = "lakehouse",
                                ![p].rows = gold, ![p].seen = gold]
     \/ /\ ~aggregates
        /\ runs' = [runs EXCEPT ![p].stage = "loaded", ![p].source = "cosmos"]
     \/ runs' = [runs EXCEPT ![p].stage = "failed"]
  /\ UNCHANGED <<gold, rewrites, aggregates, files>>

\* Mutant of ToUpload: there is no table to write without rows.
ToUploadIfAny(rows) == IF rows = {} THEN {1, 2} ELSE 1 .. 3

\* The artefacts uploaded, in the order of Kinds.
ToUpload(rows) == 1 .. 3

\* upload_to_adls with overwrite=True, of one file; the submission id is that of the attempt.
Upload(p) ==
  /\ runs[p].stage = "loaded" /\ ~runs[p].dry /\ runs[p].next <= 3
  /\ files' = IF runs[p].next \in ToUpload(runs[p].rows)
              THEN [files EXCEPT ![runs[p].next] =
                      [id |-> <<p, runs[p].attempt>>, rows |-> runs[p].rows]]
              ELSE files
  /\ runs' = [q \in Processes |->
       IF q = p
       THEN [runs[p] EXCEPT !.next = @ + 1,
               !.crossed = IF runs[p].next = 1 THEN FALSE ELSE @]
       ELSE [runs[q] EXCEPT !.crossed = (@ \/ runs[q].next > 1)]]
  /\ UNCHANGED <<gold, rewrites, aggregates>>

Finish(p) ==
  /\ runs[p].stage = "loaded"
  /\ runs[p].dry \/ runs[p].next > 3
  /\ runs' = [runs EXCEPT ![p].stage = "done"]
  /\ UNCHANGED <<gold, rewrites, aggregates, files>>

\* An upload fails, or the replica runs into its timeout.
RunFails(p) ==
  /\ runs[p].stage = "loaded"
  /\ runs' = [runs EXCEPT ![p].stage = "failed"]
  /\ UNCHANGED <<gold, rewrites, aggregates, files>>

EbaNext ==
  \/ Rewrite
  \/ \E p \in Processes : Begin(p) \/ Load(p) \/ Upload(p) \/ Finish(p) \/ RunFails(p)

EbaSpec == EbaInit /\ [][EbaNext]_ebaVars
-----------------------------------------------------------------------------
\* What the groups of an annex add up to.
SumOf(annex, m) == SumFunction([g \in annex |-> g.sums[m]])

\* The types; the job, which runs in the month after a quarter, reports that quarter; and of
\* every table a report can be made of, the annexes add up to the totals, B and D but for fraud
\* without a type or a bearer, which they leave out.
EbaTypeOK ==
  /\ gold \in Tables /\ aggregates \in BOOLEAN
  /\ \A p \in Processes : runs[p].rows \in Tables \cup {{}} /\ runs[p].next \in 1 .. 4
  /\ \A month \in {1, 4, 7, 10} :
       LET end == DatesOf(QuarterOf(2026, month))[2]
       IN 12 * end[1] + end[2] = 12 * 2026 + month - 1
  /\ \A k \in 1 .. 3 :
       LET rows == files[k].rows
       IN /\ SumOf(AnnexA(rows), "tx") = Total(rows, "tx")
          /\ SumOf(AnnexC(rows), "fraudValue") = Total(rows, "fraudValue")
          /\ SumOf(AnnexB(rows), "fraud") = Total({r \in rows : r.type # None}, "fraud")
          /\ SumOf(AnnexD(rows), "loss") = Total({r \in WithFraud(rows) : r.bearer # None}, "loss")

\* Once a run has finished, the three files show one report, its own, unless another run wrote
\* since its first upload; and that is the gold table as it was when it was read, or nothing at
\* all, if the table could not be read and Cosmos had no aggregates.
FinishedRunIsFiled ==
  \A p \in Processes :
    runs[p].stage = "done" /\ ~runs[p].dry /\ ~runs[p].crossed =>
      \A k \in 1 .. 3 :
        /\ files[k].id = <<p, runs[p].attempt>>
        /\ Rendered(Kinds[k], files[k].rows) =
             Rendered(Kinds[k], IF runs[p].source = "lakehouse" THEN runs[p].seen ELSE {})
=============================================================================
