------------------------------- MODULE Sweep -------------------------------
(***************************************************************************)
(* The benches that turn the dial of a live server: each visits a list of  *)
(* lambdas, sets the dial, asks its prompts and puts the dial back, with   *)
(* more or less care.  One bench is one record of Rules; the steps are     *)
(* shared.                                                                 *)
(*                                                                         *)
(* A POST or GET may fail (with the dial moved or not), a request may fail *)
(* (OSError, a timeout), Ctrl-C may arrive, the server may restart in its  *)
(* pod, the process may be killed and run again, and between two runs the  *)
(* pod may be replaced or the operator may put the dial back by hand.      *)
(***************************************************************************)
EXTENDS Integers, Sequences, FiniteSets

CONSTANTS
  Benches,      \* which benches to run
  LambdaList,   \* --lambdas: a sequence of values, 0 among them
  Prompts,      \* the battery (the suites of lm-eval, for quality)
  Reps,         \* --reps of compare_full
  Production,   \* --production-lambda; also where the operator keeps the dial
  Chunk,        \* --chunk-size of bench_overrefusal_v2
  MaxAttempts,  \* --max-contaminated-retries
  MaxFaults,    \* bound: failures of any kind in a behaviour
  MaxRuns,      \* bound: runs of the bench
  Mixed         \* the dial when the ranks disagree

Values == {LambdaList[i] : i \in DOMAIN LambdaList}

ASSUME SweepAssumption ==
  /\ LambdaList \in Seq(Int) /\ 0 \in Values
  /\ Cardinality(Values) = Len(LambdaList)
  /\ Prompts # {} /\ Reps \in Nat \ {0} /\ Production \in Values
  /\ Chunk \in Nat \ {0} /\ MaxAttempts \in Nat
  /\ MaxFaults \in Nat /\ MaxRuns \in Nat /\ Mixed \notin Values

VARIABLES
  bench,    \* the bench that runs
  served,   \* what GET /admin/refusal_lambda answers
  fresh,    \* has the server restarted since the dial was last set?
  pod,      \* the pod's uid
  pc,       \* where main is
  found,    \* the dial it read first: original, initial_lambda
  visit,    \* index in Plan
  left,     \* prompts of this visit not asked yet
  flight,   \* requests in flight
  got,      \* rows of this window, not yet in the results
  memory,   \* the rows main holds
  disk,     \* the rows in its files
  cut,      \* a file is truncated and not written again
  report,   \* has its summary, or results file, been written?
  raised,   \* an exception is on its way out
  gaveUp,   \* has a restore failed for good?
  attempt,  \* contaminated measures of this visit
  faults,   \* failures so far
  runs      \* runs so far

sweepVars == <<bench, served, fresh, pod, pc, found, visit, left, flight, got, memory,
          disk, cut, report, raised, gaveUp, attempt, faults, runs>>

server == <<served, fresh, pod>>
results == <<memory, disk, cut, report>>
window == <<left, flight, got, attempt>>

-----------------------------------------------------------------------------
(* One record for each bench:                                              *)
(*   home      where it puts the dial back                                 *)
(*   demands   what it asks of the dial before it starts                   *)
(*   inner     the dial goes back after every window                       *)
(*   last      the dial goes back at the end: "always", "success", "never" *)
(*   insists   a restore is tried several times, and raises nothing        *)
(*   swallows  a failed request is a row, and not an exception             *)
(*   pool      requests are in flight together, and awaited                *)
(*   waits     it waits for an idle server before a window                 *)
(*   saves     when rows reach a file                                      *)
(*   resumes   a run takes the rows of an earlier one                      *)

\* bench_refusal.py: the dial goes to 0, and only if nothing fails
Refusal == [home |-> "zero", demands |-> "nothing", inner |-> FALSE, last |-> "success",
            insists |-> FALSE, swallows |-> FALSE, pool |-> FALSE, waits |-> FALSE,
            saves |-> "end", resumes |-> FALSE]

\* bench_niah.py: sets the dial for each lambda and leaves it there
Niah == [Refusal EXCEPT !.last = "never", !.swallows = TRUE]

\* bench_overrefusal.py: three attempts after every window, and again at the end
Overrefusal == [home |-> "found", demands |-> "consistent", inner |-> TRUE, last |-> "always",
                insists |-> TRUE, swallows |-> TRUE, pool |-> TRUE, waits |-> FALSE,
                saves |-> "end", resumes |-> FALSE]

\* bench_overrefusal_v2.py: four attempts, chunks, a dump after each of them
OverrefusalV2 == [Overrefusal EXCEPT !.demands = "zero", !.saves = "window",
                                     !.resumes = TRUE]

\* bench_quality_multilambda.py: lm-eval writes each suite; the dial goes to --production-lambda
Quality == [home |-> "given", demands |-> "nothing", inner |-> TRUE, last |-> "always",
            insists |-> FALSE, swallows |-> FALSE, pool |-> FALSE, waits |-> FALSE,
            saves |-> "row", resumes |-> TRUE]

\* bench_strongreject_refusal.py: each row is appended and synced
StrongReject == [home |-> "found", demands |-> "consistent", inner |-> FALSE, last |-> "always",
                 insists |-> FALSE, swallows |-> TRUE, pool |-> TRUE, waits |-> TRUE,
                 saves |-> "row", resumes |-> TRUE]

\* compare_full.py: one measure per window, repeated while other traffic disturbs it
CompareFull == [home |-> "found", demands |-> "consistent", inner |-> TRUE, last |-> "always",
                insists |-> FALSE, swallows |-> FALSE, pool |-> FALSE, waits |-> TRUE,
                saves |-> "window", resumes |-> TRUE]

Rules == [refusal |-> Refusal, niah |-> Niah, overrefusal |-> Overrefusal,
          v2 |-> OverrefusalV2, quality |-> Quality,
          strongreject |-> StrongReject, compare |-> CompareFull]

ASSUME BenchesAssumption == Benches \subseteq DOMAIN Rules

My == Rules[bench]

\* balanced_orders: the Williams design over 0 .. n - 1
BalancedOrders(n) ==
  LET base == [k \in 1 .. n |-> IF k % 2 = 0 THEN k \div 2 ELSE (n - (k - 1) \div 2) % n]
      shifted == [s \in 1 .. n |-> [k \in 1 .. n |-> (base[k] + s - 1) % n]]
      turned == [s \in 1 .. n |-> [k \in 1 .. n |-> shifted[s][n + 1 - k]]]
  IN IF n = 2 THEN <<<<0, 1>>, <<1, 0>>>>
     ELSE IF n % 2 = 0 THEN shifted ELSE shifted \o turned

\* compare_full's NIAH and tooling
Suites == Reps + 1 .. Reps + 2

\* The windows main opens: its lambdas in order; for compare_full the speed of each rep
\* in the rep's order, then NIAH and tooling
Plan ==
  LET n == Len(LambdaList)
      orders == BalancedOrders(n)
      each(pieces) == [v \in 1 .. n |-> [lam |-> LambdaList[v], pieces |-> pieces]]
      speed == [v \in 1 .. Reps * n |->
                  LET rep == (v - 1) \div n
                  IN [lam |-> LambdaList[orders[(rep % Len(orders)) + 1][((v - 1) % n) + 1] + 1],
                      pieces |-> {rep + 1}]]
  IN IF bench = "compare" THEN speed \o each(Suites) ELSE each(Prompts)

Lam == Plan[visit].lam

Home == CASE My.home = "zero" -> 0
          [] My.home = "found" -> found
          [] My.home = "given" -> Production

\* v1 and v2 skip the inner restore when the window is at the original lambda
ComesHome == My.inner /\ (~My.insists \/ Lam # found)

Recorded(lam) == {r.prompt : r \in {q \in memory : q.lam = lam}}

Live == pc \notin {"off", "refused", "ended", "failed", "killed"}

Fault == faults < MaxFaults /\ faults' = faults + 1

SweepInit ==
  /\ bench \in Benches /\ served \in Values \cup {Mixed} /\ fresh = FALSE /\ pod = 1
  /\ pc = "off" /\ found = 0 /\ visit = 1 /\ left = {} /\ flight = {} /\ got = {}
  /\ memory = {} /\ disk = {} /\ cut = FALSE /\ report = FALSE /\ raised = FALSE /\ gaveUp = FALSE
  /\ attempt = 0 /\ faults = 0 /\ runs = 1

-----------------------------------------------------------------------------
(* main, up to its loop *)

\* A run that must not touch the dial, or cannot read the rows it is to resume
Refuses(resume) ==
  \/ My.demands = "consistent" /\ served = Mixed
  \/ My.demands = "zero" /\ served # 0
  \/ resume /\ cut
  \/ resume /\ bench \in {"strongreject", "compare"} /\ ~report

\* The rows a resumed run takes: v2's of this pod alone
Recalled == IF bench = "v2" THEN {r \in disk : r.pod = pod} ELSE disk

\* A run anew writes to other files
Start(resume) ==
  /\ pc = "off" /\ (resume => My.resumes)
  /\ IF Refuses(resume)
     THEN /\ pc' = "refused"
          /\ UNCHANGED <<found, results>>
     ELSE /\ pc' = "next" /\ found' = served
          /\ memory' = IF resume THEN Recalled ELSE {}
          /\ disk' = IF resume THEN disk ELSE {}
          /\ cut' = FALSE /\ report' = (resume /\ report)
  /\ UNCHANGED <<bench, server, visit, window, raised, gaveUp, faults, runs>>

\* Mutant of Pending: what was measured is measured again
PendingAll == Plan[visit].pieces

\* The prompts of a visit with no row yet; a row of a failed request counts
Pending == Plan[visit].pieces \ Recorded(Lam)

NextVisit ==
  /\ pc = "next"
  /\ IF visit > Len(Plan)
     THEN /\ pc' = IF My.last = "never" THEN "write" ELSE "last"
          /\ UNCHANGED <<visit, left>>
     ELSE IF Pending = {}
     THEN /\ visit' = visit + 1
          /\ UNCHANGED <<pc, left>>
     ELSE /\ left' = Pending
          /\ pc' = IF My.waits THEN "wait" ELSE "set"
          /\ UNCHANGED visit
  /\ UNCHANGED <<bench, server, found, flight, got, attempt, results, raised, gaveUp, faults, runs>>

\* wait_idle: no request runs and none waits
Idle ==
  /\ pc = "wait" /\ pc' = "set"
  /\ UNCHANGED <<bench, server, found, visit, window, results, raised, gaveUp, faults, runs>>

-----------------------------------------------------------------------------
(* Where an exception goes *)

\* Mutant of Outer: no finally around the loop
OuterMissing == "failed"

\* Out of the loop
Outer == IF My.last = "always" THEN "last" ELSE "failed"

\* Out of a window
Inner == IF My.inner THEN "home" ELSE Outer

\* A failed POST may have moved the dial, on every rank or on some
Failing(v) == served' \in {served, v, Mixed} /\ UNCHANGED <<fresh, pod>> /\ Fault

\* wait_idle gives up, or Ctrl-C while it waits
WaitBreaks ==
  /\ pc = "wait" /\ Fault
  /\ raised' = TRUE /\ pc' = Outer
  /\ UNCHANGED <<bench, server, found, visit, window, results, gaveUp, runs>>

-----------------------------------------------------------------------------
(* A window *)

\* The prompts asked at once: v2's chunks, and everything left for the others
Batches ==
  IF bench = "v2"
  THEN {w \in SUBSET left : Cardinality(w) = IF Cardinality(left) < Chunk
                                              THEN Cardinality(left) ELSE Chunk}
  ELSE {left}

Turned(v) == served' = v /\ fresh' = FALSE /\ UNCHANGED pod

\* Mutant of SetLambda: the answer of the GET is not read
SetLambdaUnread ==
  /\ pc = "set"
  /\ \/ Turned(Lam) /\ UNCHANGED faults
     \/ Failing(Lam)
  /\ pc' = "ask"
  /\ \E w \in Batches : flight' = w /\ left' = left \ w
  /\ UNCHANGED <<bench, found, visit, got, attempt, results, raised, gaveUp, runs>>

\* set_lambda: POST, then a GET that must answer the same lambda on every rank
SetLambda ==
  /\ pc = "set"
  /\ \/ /\ Turned(Lam) /\ UNCHANGED <<faults, raised>>
        /\ pc' = "ask"
        /\ \E w \in Batches : flight' = w /\ left' = left \ w
     \/ /\ Failing(Lam)
        /\ raised' = TRUE /\ pc' = Outer
        /\ UNCHANGED <<flight, left>>
  /\ UNCHANGED <<bench, found, visit, got, attempt, results, gaveUp, runs>>

Row(p, ok) == [lam |-> Lam, prompt |-> p, at |-> served, ok |-> ok, fresh |-> fresh, pod |-> pod]

\* A row is held until its window closes, or goes to its file at once
Keep(p, ok) ==
  IF My.saves = "row"
  THEN /\ memory' = memory \cup {Row(p, ok)}
       /\ disk' = disk \cup {Row(p, ok)}
       /\ UNCHANGED <<got, cut, report>>
  ELSE IF bench = "compare" /\ p \in Suites
  THEN memory' = memory \cup {Row(p, ok)} /\ UNCHANGED <<got, disk, cut, report>>
  ELSE /\ got' = got \cup {Row(p, ok)}
       /\ UNCHANGED results

\* A request answers; while the pool drains after Ctrl-C nobody reads the answer
Answers(p) ==
  /\ pc \in {"ask", "drain"} /\ p \in flight
  /\ flight' = flight \ {p}
  /\ IF pc = "ask" THEN Keep(p, TRUE) ELSE UNCHANGED <<got, results>>
  /\ UNCHANGED <<bench, server, pc, found, visit, left, attempt, raised, gaveUp, faults, runs>>

\* A request fails: a row that says so, or an exception
AnswerFails(p) ==
  /\ pc = "ask" /\ p \in flight /\ Fault
  /\ IF My.swallows
     THEN /\ flight' = flight \ {p}
          /\ Keep(p, FALSE)
          /\ UNCHANGED <<pc, raised>>
     ELSE /\ flight' = {} /\ got' = {}
          /\ raised' = TRUE /\ pc' = Inner
          /\ UNCHANGED results
  /\ UNCHANGED <<bench, server, found, visit, left, attempt, gaveUp, runs>>

\* run_speed under other traffic: the measure is discarded and will be repeated
Contaminated ==
  /\ bench = "compare" /\ pc = "ask" /\ flight # {} /\ flight \cap Suites = {}
  /\ left' = flight /\ flight' = {} /\ attempt' = attempt + 1
  /\ pc' = "home"
  /\ UNCHANGED <<bench, server, found, visit, got, results, raised, gaveUp, faults, runs>>

\* Ctrl-C: leaving the pool's with waits for every request submitted to it; a second Ctrl-C
\* in that wait is not modelled
Interrupt ==
  /\ pc = "ask" /\ Fault
  /\ raised' = TRUE /\ got' = {}
  /\ IF My.pool THEN pc' = "drain" /\ UNCHANGED flight
                 ELSE pc' = Inner /\ flight' = {}
  /\ UNCHANGED <<bench, server, found, visit, left, attempt, results, gaveUp, runs>>

Drained ==
  /\ pc = "drain" /\ flight = {} /\ pc' = Inner
  /\ UNCHANGED <<bench, server, found, visit, window, results, raised, gaveUp, faults, runs>>

-----------------------------------------------------------------------------
(* Files.  open(path, "w") truncates, and the write comes after            *)

\* A cut JSON document is unreadable; of a cut JSONL file the whole lines remain
Truncate ==
  IF My.saves = "row"
  THEN /\ \E lost \in SUBSET {r \in disk : r.lam = Lam} : disk' = disk \ lost
       /\ cut' \in BOOLEAN
  ELSE cut' = TRUE /\ UNCHANGED disk

\* A window is over: its rows join the results, which v2 dumps even when it raises
Close ==
  /\ memory' = memory \cup got /\ got' = {} /\ UNCHANGED report
  /\ IF bench \in {"v2", "strongreject"} \/ (bench = "compare" /\ ~raised)
     THEN pc' = "save" /\ Truncate /\ UNCHANGED visit
     ELSE /\ UNCHANGED <<disk, cut>>
          /\ pc' = IF raised THEN Outer ELSE "next"
          /\ visit' = IF raised THEN visit ELSE visit + 1

\* Every request of the window has answered
WindowDone ==
  /\ pc = "ask" /\ flight = {}
  /\ IF My.inner
     THEN pc' = "home" /\ UNCHANGED <<visit, got, results>>
     ELSE Close
  /\ UNCHANGED <<bench, server, found, left, flight, attempt, raised, gaveUp, faults, runs>>

\* Mutant of Restore: back to 0 whatever the dial was
RestoreZero ==
  /\ pc = "home"
  /\ Turned(0) /\ Close /\ UNCHANGED <<raised, gaveUp, faults>>
  /\ UNCHANGED <<bench, found, left, flight, attempt, runs>>

\* The inner finally: the dial goes home; v1 and v2 insist and then go on
Restore ==
  /\ pc = "home"
  /\ \/ /\ IF ComesHome THEN Turned(Home) ELSE UNCHANGED server
        /\ Close /\ UNCHANGED <<raised, gaveUp, faults>>
     \/ /\ ComesHome /\ Failing(Home) /\ gaveUp' = TRUE
        /\ IF My.insists
           THEN Close /\ UNCHANGED raised
           ELSE /\ raised' = TRUE /\ pc' = "last" /\ got' = {}
                /\ UNCHANGED <<visit, results>>
  /\ UNCHANGED <<bench, found, left, flight, attempt, runs>>

\* Mutant of Save: the rows of this window alone
SaveTheWindow ==
  /\ pc = "save"
  /\ disk' = {r \in memory : r.lam = Lam} /\ cut' = FALSE /\ report' = TRUE
  /\ IF raised THEN pc' = "last" /\ UNCHANGED <<visit, attempt, raised>>
     ELSE IF left = {} THEN pc' = "next" /\ visit' = visit + 1 /\ attempt' = 0 /\ UNCHANGED raised
     ELSE IF bench = "compare" /\ attempt > MaxAttempts
     THEN pc' = "last" /\ raised' = TRUE /\ UNCHANGED <<visit, attempt>>
     ELSE pc' = (IF My.waits THEN "wait" ELSE "set") /\ UNCHANGED <<visit, attempt, raised>>
  /\ UNCHANGED <<bench, server, found, left, flight, got, memory, gaveUp, faults, runs>>

\* Mutant of Save: contaminated measures are repeated for ever
SaveRepeats ==
  /\ pc = "save"
  /\ disk' = memory /\ cut' = FALSE /\ report' = TRUE
  /\ IF raised THEN pc' = "last" /\ UNCHANGED visit
     ELSE IF left = {} THEN pc' = "next" /\ visit' = visit + 1
     ELSE pc' = (IF My.waits THEN "wait" ELSE "set") /\ UNCHANGED visit
  /\ attempt' = 0
  /\ UNCHANGED <<bench, server, found, left, flight, got, memory, raised, gaveUp, faults, runs>>

\* The dump is written: the next chunk, the same measure again, or the next visit
Save ==
  /\ pc = "save"
  /\ disk' = memory /\ cut' = FALSE /\ report' = TRUE
  /\ IF raised THEN pc' = Outer /\ UNCHANGED <<visit, attempt, raised>>
     ELSE IF left = {} THEN pc' = "next" /\ visit' = visit + 1 /\ attempt' = 0 /\ UNCHANGED raised
     ELSE IF bench = "compare" /\ attempt > MaxAttempts
     THEN pc' = "last" /\ raised' = TRUE /\ UNCHANGED <<visit, attempt>>
     ELSE pc' = (IF My.waits THEN "wait" ELSE "set") /\ UNCHANGED <<visit, attempt, raised>>
  /\ UNCHANGED <<bench, server, found, left, flight, got, memory, gaveUp, faults, runs>>

Finish(failed) ==
  IF My.saves \in {"end", "window"} /\ memory # {}
  THEN pc' = "write" /\ cut' = TRUE /\ raised' = failed
  ELSE pc' = (IF failed THEN "failed" ELSE "ended") /\ UNCHANGED cut /\ raised' = failed

\* The outer finally, or bench_refusal's last line: the dial goes home
RestoreLast ==
  /\ pc = "last"
  /\ \/ Turned(Home) /\ gaveUp' = FALSE /\ Finish(raised) /\ UNCHANGED faults
     \/ /\ Failing(Home) /\ gaveUp' = TRUE
        /\ IF My.insists THEN Finish(raised)
                         ELSE pc' = "failed" /\ raised' = TRUE /\ UNCHANGED cut
  /\ UNCHANGED <<bench, found, visit, window, memory, disk, report, runs>>

\* The results are written
Write ==
  /\ pc = "write"
  /\ disk' = memory /\ cut' = FALSE /\ report' = TRUE
  /\ pc' = IF raised THEN "failed" ELSE "ended"
  /\ UNCHANGED <<bench, server, found, visit, window, memory, raised, gaveUp, faults, runs>>

-----------------------------------------------------------------------------
(* The world around the process *)

\* SIGKILL: no finally runs, a truncated file stays truncated
Kill ==
  /\ Live /\ pc' = "killed"
  /\ UNCHANGED <<bench, server, found, visit, window, results, raised, gaveUp, faults, runs>>

Again ==
  /\ pc \in {"refused", "failed", "killed"} /\ runs < MaxRuns
  /\ runs' = runs + 1 /\ pc' = "off"
  /\ visit' = 1 /\ left' = {} /\ flight' = {} /\ got' = {} /\ attempt' = 0
  /\ memory' = {} /\ raised' = FALSE /\ gaveUp' = FALSE
  /\ UNCHANGED <<bench, server, found, disk, cut, report, faults>>

\* The server's process starts again in its pod: the dial boots at 0
ServerRestarts ==
  /\ Live /\ Fault
  /\ served' = 0 /\ fresh' = TRUE
  /\ UNCHANGED <<bench, pod, pc, found, visit, window, results, raised, gaveUp, runs>>

\* Between two runs the Deployment replaces the pod
PodRolls ==
  /\ pc = "off" /\ Fault
  /\ pod' = pod + 1 /\ served' = 0 /\ fresh' = TRUE
  /\ UNCHANGED <<bench, pc, found, visit, window, results, raised, gaveUp, runs>>

\* Between two runs the operator puts the dial back
ByHand ==
  /\ pc = "off" /\ served # Production
  /\ Turned(Production)
  /\ UNCHANGED <<bench, pc, found, visit, window, results, raised, gaveUp, faults, runs>>

\* The bench's own steps; every request has a timeout, hence answers or fails
Step ==
  \/ \E resume \in BOOLEAN : Start(resume)
  \/ NextVisit \/ Idle \/ SetLambda \/ WindowDone \/ Drained \/ Contaminated
  \/ \E p \in flight : Answers(p)
  \/ Restore \/ Save \/ RestoreLast \/ Write

World ==
  \/ WaitBreaks \/ Interrupt \/ \E p \in flight : AnswerFails(p)
  \/ Kill \/ Again \/ ServerRestarts \/ PodRolls \/ ByHand

SweepNext == Step \/ World

SweepSpec == SweepInit /\ [][SweepNext]_sweepVars /\ WF_sweepVars(Step)

-----------------------------------------------------------------------------
Rows == [lam : Values, prompt : Prompts \cup 1 .. Reps + 2, at : Values \cup {Mixed},
         ok : BOOLEAN, fresh : BOOLEAN, pod : Nat]

\* Types, and a bench that is not in a window has nothing in flight
SweepTypeOK ==
  /\ bench \in Benches /\ served \in Values \cup {Mixed} /\ fresh \in BOOLEAN /\ pod \in Nat
  /\ found \in Values \cup {Mixed} /\ visit \in 1 .. Len(Plan) + 1
  /\ left \cup flight \subseteq Prompts \cup 1 .. Reps + 2
  /\ got \cup memory \cup disk \subseteq Rows
  /\ cut \in BOOLEAN /\ report \in BOOLEAN /\ raised \in BOOLEAN /\ gaveUp \in BOOLEAN
  /\ attempt \in 0 .. MaxAttempts + 1
  /\ flight # {} => pc \in {"ask", "drain", "killed"}

\* A row filed under a lambda was answered at that lambda, unless the server restarted
\* in its window; a request in flight meets that lambda until it answers, also after one
\* Ctrl-C (a second one, while the pool drains, would leave requests behind and is not
\* modelled); and v2 never puts the rows of two pods in one comparison.
RowsAtTheirLambda ==
  /\ SweepTypeOK
  /\ bench = "v2" /\ Live => \A r \in memory \cup got : r.pod = pod
  /\ \A r \in memory \cup got \cup disk : r.ok /\ ~r.fresh => r.at = r.lam
  /\ flight # {} /\ Live /\ ~fresh => served = Lam

\* A run over all its windows has a row for every prompt of every lambda; no prompt has two
\* rows at a lambda, in one run or over resumed ones, and none with a row is asked again.
EveryPromptOnce ==
  /\ Live /\ visit <= Len(Plan) => (flight \cup left) \cap Recorded(Lam) = {}
  /\ \A r, q \in memory : r.lam = q.lam /\ r.prompt = q.prompt => r = q
  /\ pc = "ended" => \A v \in DOMAIN Plan : Plan[v].pieces \subseteq Recorded(Plan[v].lam)

\* A bench with a finally around its loop, when its process ends on its own, leaves the
\* dial where that run found it (or at --production-lambda), or its last words say not.
EndsAtHome ==
  pc \in {"ended", "failed"} /\ My.last = "always" /\ ~gaveUp /\ ~fresh => served = Home

\* v1, v2 and compare_full measure in short windows: while they wait for an idle server,
\* write a file or prepare the next window, production has its own dial.
HomeBetweenWindows ==
  /\ My.inner /\ My.home = "found" /\ pc \in {"next", "wait", "set", "save"}
  /\ ~gaveUp /\ ~fresh
  => served = found

\* Rows of this window; compare_full visits a lambda again for its next measure
OfThisWindow(r) ==
  /\ visit <= Len(Plan) /\ r.lam = Lam
  /\ bench = "compare" => r.prompt \in Plan[visit].pieces

\* A kill of a bench with incremental results costs the window it is in (v2: the chunk), and
\* leaves a file that can be read and resumed.  Not so while v2 or compare_full dump: they
\* have truncated the one file that holds every window.
KillCostsAWindow ==
  [][/\ pc # "killed" /\ pc' = "killed" /\ My.saves \in {"row", "window"}
     /\ ~ (My.saves = "window" /\ pc \in {"save", "write"})
     => /\ \A r \in (memory \cup got) \ disk : OfThisWindow(r)
        /\ bench = "v2" => memory \subseteq disk
        /\ My.saves = "window" => ~ cut]_sweepVars

\* A run ends; if nobody kills it and no restore failed for good, with the dial at home
ComesToAnEnd ==
  Live ~> \/ pc = "killed"
          \/ /\ pc \in {"ended", "failed"}
             /\ My.last = "always" => served = Home \/ gaveUp \/ fresh

=============================================================================
