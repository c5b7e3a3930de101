-------------------------- MODULE TPCHDriverProofs --------------------------
(***************************************************************************)
(* Proofs about TPCHDriver, for any number of container instances, of      *)
(* queries and of failures, and any succession of commands.  A command is  *)
(* a program in which the number of the next step says what has been done, *)
(* so that each invariant is a table of what holds before each step; what  *)
(* makes it one is that postgres.sh acts on what it sees at that moment.   *)
(***************************************************************************)
EXTENDS TPCHDriver, FiniteSetTheorems, SequenceTheorems, TLAPS

-----------------------------------------------------------------------------
(* The commands as tables of steps.                                          *)

OnCache == {"prepare-from-cache", "run-from-cache"}
OnDbgen == {"prepare", "run"}
Benchmarks == {"run-quick", "run-from-cache", "run"}

\* the number of steps of the preparation
Base(c) == IF c \in OnDbgen THEN 7 ELSE IF c \in OnCache THEN 16 ELSE 0

PrepareStep(k) ==
  CASE k = 1 -> "stop" [] k = 2 -> "reset" [] k = 3 -> "start" [] k = 4 -> "drop"
    [] k = 5 -> "create" [] k = 6 -> "schema" [] k = 7 -> "load"

CacheStep(k) ==
  CASE k = 1 -> "stop" [] k = 3 -> "rm" [] k = 4 -> "unzip" [] k = 5 -> "start"
    [] k \in {2, 6, 7, 11, 15} -> "sleep" [] k \in {8, 9, 12, 13, 16} -> "check"
    [] k \in {10, 14} -> "restart"

BenchmarkStep(k) ==
  CASE k = 1 -> "restart" [] k = 2 -> "sleep" [] k = 3 -> "header"
    [] k > 3 /\ (k - 4) % 4 \in {0, 1} -> "query"
    [] k > 3 /\ (k - 4) % 4 = 2 -> "restart"
    [] k > 3 /\ (k - 4) % 4 = 3 -> "sleep"

Table(c, k) ==
  IF k > Base(c) THEN BenchmarkStep(k - Base(c))
  ELSE IF c \in OnDbgen THEN PrepareStep(k) ELSE CacheStep(k)

Size(c) == Base(c) + (IF c \in Benchmarks THEN 3 + 4 * NumQueries ELSE 0)

StepNames ==
  {"stop", "reset", "start", "drop", "create", "schema", "load", "sleep", "rm", "unzip",
   "check", "restart", "header", "query"}

\* s is a beginning of the table of command c
Begins(c, s) ==
  /\ s \in Seq(StepNames)
  /\ \A k \in 1 .. Len(s) : s[k] = Table(c, k)

\* A beginning of a table stays one when the steps that follow are added.
LEMMA BeginsGrows ==
  ASSUME NEW c, NEW s, Begins(c, s), NEW t \in Seq(StepNames),
         \A k \in 1 .. Len(t) : t[k] = Table(c, Len(s) + k)
  PROVE  Begins(c, s \o t) /\ Len(s \o t) = Len(s) + Len(t)
<1> DEFINE n == Len(s)
<1>0. n \in Nat  BY LenProperties DEF Begins
<1>1. s \in Seq(StepNames)  BY DEF Begins
<1>2. /\ s \o t \in Seq(StepNames)
      /\ Len(s \o t) = n + Len(t)
      /\ \A k \in 1 .. n + Len(t) : (s \o t)[k] = IF k <= n THEN s[k] ELSE t[k - n]
  BY <1>0, <1>1, ConcatProperties
<1>3. ASSUME NEW k \in 1 .. n + Len(t)  PROVE (s \o t)[k] = Table(c, k)
  <2>1. Len(t) \in Nat  BY LenProperties
  <2>2. CASE k <= n
    BY <1>0, <2>2, <1>2 DEF Begins
  <2>3. CASE k > n
    <3>1. k - n \in 1 .. Len(t) /\ n + (k - n) = k  BY <1>0, <2>1, <2>3
    <3>2. t[k - n] = Table(c, n + (k - n))  BY <3>1
    <3>3. (s \o t)[k] = t[k - n]  BY <1>0, <1>2, <2>1, <2>3
    <3> QED BY <3>1, <3>2, <3>3
  <2> QED BY <1>0, <2>2, <2>3
<1> QED BY <1>2, <1>3 DEF Begins

\* The preparation with generated data has the steps of its table.
LEMMA PrepareSteps ==
  ASSUME NEW c \in OnDbgen
  PROVE  Begins(c, prepare_benchmark) /\ Len(prepare_benchmark) = 7
<1>1. prepare_benchmark \in Seq(StepNames) /\ Len(prepare_benchmark) = 7
  BY DEF prepare_benchmark, StepNames
<1>2. ASSUME NEW k \in 1 .. 7 PROVE prepare_benchmark[k] = Table(c, k)
  <2>1. k \in {1, 2, 3, 4, 5, 6, 7}  OBVIOUS
  <2> QED BY <2>1 DEF prepare_benchmark, Table, Base, PrepareStep
<1> QED BY <1>1, <1>2 DEF Begins

\* So has the preparation from a copy.
LEMMA CacheSteps ==
  ASSUME NEW c \in OnCache
  PROVE  Begins(c, prepare_from_data) /\ Len(prepare_from_data) = 16
<1> DEFINE s1 == stop_postgres
           s2 == s1 \o <<"rm", "unzip">>
           s3 == s2 \o start_postgres
           s4 == s3 \o <<"sleep", "check", "check">>
           s5 == s4 \o restart_postgres
           s6 == s5 \o <<"check", "check">>
           s7 == s6 \o restart_postgres
           s8 == s7 \o <<"check">>
<1>0. prepare_from_data = s8
  BY DEF prepare_from_data
<1>a. \A k \in 1 .. 16 : Table(c, k) = CacheStep(k)
  BY DEF Table, Base, OnDbgen, OnCache
<1> HIDE DEF s1, s2, s3, s4, s5, s6, s7, s8
<1>1. Begins(c, s1) /\ Len(s1) = 2
  <2>1. s1 \in Seq(StepNames) /\ Len(s1) = 2 /\ s1[1] = "stop" /\ s1[2] = "sleep"
    BY DEF s1, stop_postgres, StepNames
  <2>2. Table(c, 1) = "stop" /\ Table(c, 2) = "sleep"  BY <1>a DEF CacheStep
  <2>3. \A k \in 1 .. 2 : k = 1 \/ k = 2  OBVIOUS
  <2> QED BY <2>1, <2>2, <2>3 DEF Begins
<1>2. Begins(c, s2) /\ Len(s2) = 4
  <2> DEFINE t == <<"rm", "unzip">>
  <2>1. t \in Seq(StepNames) /\ Len(t) = 2 /\ t[1] = "rm" /\ t[2] = "unzip"
    BY DEF StepNames
  <2>2. Table(c, 2 + 1) = "rm" /\ Table(c, 2 + 2) = "unzip"
    BY <1>a DEF CacheStep
  <2>3. \A k \in 1 .. 2 : k = 1 \/ k = 2  OBVIOUS
  <2>4. s2 = s1 \o t  BY DEF s2
  <2> HIDE DEF t
  <2>5. \A k \in 1 .. Len(t) : t[k] = Table(c, Len(s1) + k)
    BY <1>1, <2>1, <2>2, <2>3
  <2>6. Begins(c, s1 \o t) /\ Len(s1 \o t) = Len(s1) + Len(t)
    BY <1>1, <2>1, <2>5, BeginsGrows
  <2> QED BY <1>1, <2>1, <2>4, <2>6
<1>3. Begins(c, s3) /\ Len(s3) = 6
  <2> DEFINE t == start_postgres
  <2>1. t \in Seq(StepNames) /\ Len(t) = 2 /\ t[1] = "start" /\ t[2] = "sleep"
    BY DEF StepNames, start_postgres
  <2>2. Table(c, 4 + 1) = "start" /\ Table(c, 4 + 2) = "sleep"
    BY <1>a DEF CacheStep
  <2>3. \A k \in 1 .. 2 : k = 1 \/ k = 2  OBVIOUS
  <2>4. s3 = s2 \o t  BY DEF s3
  <2> HIDE DEF t
  <2>5. \A k \in 1 .. Len(t) : t[k] = Table(c, Len(s2) + k)
    BY <1>2, <2>1, <2>2, <2>3
  <2>6. Begins(c, s2 \o t) /\ Len(s2 \o t) = Len(s2) + Len(t)
    BY <1>2, <2>1, <2>5, BeginsGrows
  <2> QED BY <1>2, <2>1, <2>4, <2>6
<1>4. Begins(c, s4) /\ Len(s4) = 9
  <2> DEFINE t == <<"sleep", "check", "check">>
  <2>1. t \in Seq(StepNames) /\ Len(t) = 3 /\ t[1] = "sleep" /\ t[2] = "check" /\ t[3] = "check"
    BY DEF StepNames
  <2>2. Table(c, 6 + 1) = "sleep" /\ Table(c, 6 + 2) = "check" /\ Table(c, 6 + 3) = "check"
    BY <1>a DEF CacheStep
  <2>3. \A k \in 1 .. 3 : k = 1 \/ k = 2 \/ k = 3  OBVIOUS
  <2>4. s4 = s3 \o t  BY DEF s4
  <2> HIDE DEF t
  <2>5. \A k \in 1 .. Len(t) : t[k] = Table(c, Len(s3) + k)
    BY <1>3, <2>1, <2>2, <2>3
  <2>6. Begins(c, s3 \o t) /\ Len(s3 \o t) = Len(s3) + Len(t)
    BY <1>3, <2>1, <2>5, BeginsGrows
  <2> QED BY <1>3, <2>1, <2>4, <2>6
<1>5. Begins(c, s5) /\ Len(s5) = 11
  <2> DEFINE t == restart_postgres
  <2>1. t \in Seq(StepNames) /\ Len(t) = 2 /\ t[1] = "restart" /\ t[2] = "sleep"
    BY DEF StepNames, restart_postgres
  <2>2. Table(c, 9 + 1) = "restart" /\ Table(c, 9 + 2) = "sleep"
    BY <1>a DEF CacheStep
  <2>3. \A k \in 1 .. 2 : k = 1 \/ k = 2  OBVIOUS
  <2>4. s5 = s4 \o t  BY DEF s5
  <2> HIDE DEF t
  <2>5. \A k \in 1 .. Len(t) : t[k] = Table(c, Len(s4) + k)
    BY <1>4, <2>1, <2>2, <2>3
  <2>6. Begins(c, s4 \o t) /\ Len(s4 \o t) = Len(s4) + Len(t)
    BY <1>4, <2>1, <2>5, BeginsGrows
  <2> QED BY <1>4, <2>1, <2>4, <2>6
<1>6. Begins(c, s6) /\ Len(s6) = 13
  <2> DEFINE t == <<"check", "check">>
  <2>1. t \in Seq(StepNames) /\ Len(t) = 2 /\ t[1] = "check" /\ t[2] = "check"
    BY DEF StepNames
  <2>2. Table(c, 11 + 1) = "check" /\ Table(c, 11 + 2) = "check"
    BY <1>a DEF CacheStep
  <2>3. \A k \in 1 .. 2 : k = 1 \/ k = 2  OBVIOUS
  <2>4. s6 = s5 \o t  BY DEF s6
  <2> HIDE DEF t
  <2>5. \A k \in 1 .. Len(t) : t[k] = Table(c, Len(s5) + k)
    BY <1>5, <2>1, <2>2, <2>3
  <2>6. Begins(c, s5 \o t) /\ Len(s5 \o t) = Len(s5) + Len(t)
    BY <1>5, <2>1, <2>5, BeginsGrows
  <2> QED BY <1>5, <2>1, <2>4, <2>6
<1>7. Begins(c, s7) /\ Len(s7) = 15
  <2> DEFINE t == restart_postgres
  <2>1. t \in Seq(StepNames) /\ Len(t) = 2 /\ t[1] = "restart" /\ t[2] = "sleep"
    BY DEF StepNames, restart_postgres
  <2>2. Table(c, 13 + 1) = "restart" /\ Table(c, 13 + 2) = "sleep"
    BY <1>a DEF CacheStep
  <2>3. \A k \in 1 .. 2 : k = 1 \/ k = 2  OBVIOUS
  <2>4. s7 = s6 \o t  BY DEF s7
  <2> HIDE DEF t
  <2>5. \A k \in 1 .. Len(t) : t[k] = Table(c, Len(s6) + k)
    BY <1>6, <2>1, <2>2, <2>3
  <2>6. Begins(c, s6 \o t) /\ Len(s6 \o t) = Len(s6) + Len(t)
    BY <1>6, <2>1, <2>5, BeginsGrows
  <2> QED BY <1>6, <2>1, <2>4, <2>6
<1>8. Begins(c, s8) /\ Len(s8) = 16
  <2> DEFINE t == <<"check">>
  <2>1. t \in Seq(StepNames) /\ Len(t) = 1 /\ t[1] = "check"
    BY DEF StepNames
  <2>2. Table(c, 15 + 1) = "check"
    BY <1>a DEF CacheStep
  <2>3. \A k \in 1 .. 1 : k = 1  OBVIOUS
  <2>4. s8 = s7 \o t  BY DEF s8
  <2> HIDE DEF t
  <2>5. \A k \in 1 .. Len(t) : t[k] = Table(c, Len(s7) + k)
    BY <1>7, <2>1, <2>2, <2>3
  <2>6. Begins(c, s7 \o t) /\ Len(s7 \o t) = Len(s7) + Len(t)
    BY <1>7, <2>1, <2>5, BeginsGrows
  <2> QED BY <1>7, <2>1, <2>4, <2>6
<1> QED BY <1>0, <1>8

\* The queries go in turns of four steps.
LEMMA QueriesSteps ==
  /\ Queries \in Seq(StepNames) /\ Len(Queries) = 4 * NumQueries
  /\ \A k \in 1 .. 4 * NumQueries :
       Queries[k] = IF (k - 1) % 4 \in {0, 1} THEN "query"
                    ELSE IF (k - 1) % 4 = 2 THEN "restart" ELSE "sleep"
<1> DEFINE turn == <<"query", "query">> \o restart_postgres
           n == 4 * NumQueries
<1>0. n \in Nat  BY CommandsAssumption
<1>1. /\ turn[1] = "query" /\ turn[2] = "query"
      /\ turn[3] = "restart" /\ turn[4] = "sleep"
  <2> DEFINE a == <<"query", "query">>
  <2>1. a \in Seq(StepNames) /\ restart_postgres \in Seq(StepNames)
    BY DEF StepNames, restart_postgres
  <2>2. /\ Len(a) = 2 /\ a[1] = "query" /\ a[2] = "query"
        /\ Len(restart_postgres) = 2
        /\ restart_postgres[1] = "restart" /\ restart_postgres[2] = "sleep"
    BY DEF restart_postgres
  <2>3. turn = a \o restart_postgres  OBVIOUS
  <2> HIDE DEF a, turn
  <2>4. \A k \in 1 .. Len(a) + Len(restart_postgres) :
          (a \o restart_postgres)[k] =
            IF k <= Len(a) THEN a[k] ELSE restart_postgres[k - Len(a)]
    BY <2>1, ConcatProperties
  <2> QED BY <2>2, <2>3, <2>4
<1> HIDE DEF turn
<1>2. \A k \in 1 .. n : (k - 1) % 4 \in 0 .. 3  BY <1>0
<1>3. ASSUME NEW k \in 1 .. n
      PROVE  turn[((k - 1) % 4) + 1] =
               IF (k - 1) % 4 \in {0, 1} THEN "query"
               ELSE IF (k - 1) % 4 = 2 THEN "restart" ELSE "sleep"
  <2> DEFINE m == (k - 1) % 4
  <2>1. m = 0 \/ m = 1 \/ m = 2 \/ m = 3  BY <1>2
  <2> HIDE DEF m
  <2>2. turn[m + 1] = IF m \in {0, 1} THEN "query" ELSE IF m = 2 THEN "restart" ELSE "sleep"
    BY <1>1, <2>1
  <2> QED BY <2>2 DEF m
<1>4. Queries = [k \in 1 .. n |-> turn[((k - 1) % 4) + 1]]  BY DEF Queries, turn
<1>5. \A k \in 1 .. n : turn[((k - 1) % 4) + 1] \in StepNames
  BY <1>3 DEF StepNames
<1>6. Queries \in [1 .. n -> StepNames]  BY <1>4, <1>5
<1>7. Queries \in Seq(StepNames) /\ Len(Queries) = n
  BY <1>0, <1>6, SeqDef, LenProperties
<1> QED BY <1>3, <1>4, <1>7

\* The benchmark has the steps of its table.
LEMMA BenchmarkSteps ==
  /\ run_benchmark \in Seq(StepNames) /\ Len(run_benchmark) = 3 + 4 * NumQueries
  /\ \A k \in 1 .. 3 + 4 * NumQueries : run_benchmark[k] = BenchmarkStep(k)
<1> DEFINE a == <<"restart", "sleep", "header">>
           n == 4 * NumQueries
<1>0. n \in Nat  BY CommandsAssumption
<1>1. /\ a \in Seq(StepNames) /\ Len(a) = 3
      /\ a[1] = "restart" /\ a[2] = "sleep" /\ a[3] = "header"
  BY DEF StepNames
<1>2. restart_postgres \o <<"header">> = a
  <2> DEFINE h == <<"header">>  r == restart_postgres
  <2>1. /\ r \in Seq(StepNames) /\ h \in Seq(StepNames) /\ Len(r) = 2 /\ Len(h) = 1
        /\ r[1] = "restart" /\ r[2] = "sleep" /\ h[1] = "header"
    BY DEF StepNames, restart_postgres
  <2> HIDE DEF r, h, a
  <2>2. /\ r \o h \in Seq(StepNames) /\ Len(r \o h) = 3
        /\ \A k \in 1 .. 3 : (r \o h)[k] = IF k <= 2 THEN r[k] ELSE h[k - 2]
    BY <2>1, ConcatProperties
  <2>3. \A k \in 1 .. 3 : (r \o h)[k] = a[k]
    BY <1>1, <2>1, <2>2
  <2>4. r \o h = a  BY <1>1, <2>2, <2>3, SeqEqual
  <2> QED BY <2>4 DEF r, h
<1>3. run_benchmark = a \o Queries  BY <1>2 DEF run_benchmark
<1> HIDE DEF a
<1>4. /\ a \o Queries \in Seq(StepNames) /\ Len(a \o Queries) = 3 + n
      /\ \A k \in 1 .. 3 + n : (a \o Queries)[k] = IF k <= 3 THEN a[k] ELSE Queries[k - 3]
  <2>1. /\ a \o Queries \in Seq(StepNames)
        /\ Len(a \o Queries) = Len(a) + Len(Queries)
        /\ \A k \in 1 .. Len(a) + Len(Queries) :
             (a \o Queries)[k] = IF k <= Len(a) THEN a[k] ELSE Queries[k - Len(a)]
    BY <1>1, QueriesSteps, ConcatProperties
  <2>2. Len(a) = 3 /\ Len(Queries) = n  BY <1>1, QueriesSteps
  <2> QED BY <2>1, <2>2
<1>5. ASSUME NEW k \in 1 .. 3 + n  PROVE run_benchmark[k] = BenchmarkStep(k)
  <2>1. CASE k <= 3
    BY <1>1, <1>3, <1>4, <2>1 DEF BenchmarkStep
  <2>2. CASE k > 3
    <3>1. k - 3 \in 1 .. n /\ (k - 3) - 1 = k - 4  BY <1>0, <2>2
    <3>2. (k - 4) % 4 \in 0 .. 3  BY <1>0, <2>2
    <3>3. run_benchmark[k] = Queries[k - 3]  BY <1>0, <1>3, <1>4, <2>2
    <3>4. Queries[k - 3] = IF (k - 4) % 4 \in {0, 1} THEN "query"
                           ELSE IF (k - 4) % 4 = 2 THEN "restart" ELSE "sleep"
      BY <3>1, QueriesSteps
    <3> QED BY <2>2, <3>2, <3>3, <3>4 DEF BenchmarkStep
  <2> QED BY <1>0, <2>1, <2>2
<1> QED BY <1>3, <1>4, <1>5

\* Each command has the steps of its table, and no others.
LEMMA CommandSteps ==
  ASSUME NEW c \in CommandNames
  PROVE  Begins(c, StepsOf(c)) /\ Len(StepsOf(c)) = Size(c)
<1> DEFINE n == 4 * NumQueries
<1>0. n \in Nat  BY CommandsAssumption
<1>1. ASSUME Base(c) = 0  PROVE \A k \in 1 .. 3 + n : BenchmarkStep(k) = Table(c, k)
  BY <1>0, <1>1 DEF Table
<1>2. CASE c = "prepare"
  BY <1>2, PrepareSteps DEF StepsOf, Size, Base, OnDbgen, Benchmarks
<1>3. CASE c = "prepare-from-cache"
  BY <1>3, CacheSteps DEF StepsOf, Size, Base, OnDbgen, OnCache, Benchmarks
<1>4. CASE c = "run-quick"
  <2>1. Base(c) = 0 /\ Size(c) = 3 + n /\ StepsOf(c) = run_benchmark
    BY <1>4, <1>0 DEF Base, Size, StepsOf, OnDbgen, OnCache, Benchmarks
  <2> QED BY <2>1, <1>1, BenchmarkSteps DEF Begins
<1>5. CASE c = "run"
  <2>1. c \in OnDbgen /\ Base(c) = 7 /\ Size(c) = 7 + (3 + n)
        /\ StepsOf(c) = prepare_benchmark \o run_benchmark
    BY <1>5 DEF Base, Size, StepsOf, OnDbgen, Benchmarks
  <2>2. ASSUME NEW k \in 1 .. Len(run_benchmark)
        PROVE  run_benchmark[k] = Table(c, Len(prepare_benchmark) + k)
    <3>1. Len(prepare_benchmark) = 7 /\ Len(run_benchmark) = 3 + n
      BY <2>1, PrepareSteps, BenchmarkSteps
    <3>2. 7 + k > 7 /\ (7 + k) - 7 = k  BY <1>0, <3>1
    <3>3. Table(c, 7 + k) = BenchmarkStep((7 + k) - 7)  BY <2>1, <3>2 DEF Table
    <3> QED BY <3>1, <3>2, <3>3, BenchmarkSteps
  <2> QED BY <2>1, <2>2, PrepareSteps, BenchmarkSteps, BeginsGrows
<1>6. CASE c = "run-from-cache"
  <2>1. c \in OnCache /\ Base(c) = 16 /\ Size(c) = 16 + (3 + n)
        /\ StepsOf(c) = prepare_from_data \o run_benchmark
    BY <1>6 DEF Base, Size, StepsOf, OnDbgen, OnCache, Benchmarks
  <2>2. ASSUME NEW k \in 1 .. Len(run_benchmark)
        PROVE  run_benchmark[k] = Table(c, Len(prepare_from_data) + k)
    <3>1. Len(prepare_from_data) = 16 /\ Len(run_benchmark) = 3 + n
      BY <2>1, CacheSteps, BenchmarkSteps
    <3>2. 16 + k > 16 /\ (16 + k) - 16 = k  BY <1>0, <3>1
    <3>3. Table(c, 16 + k) = BenchmarkStep((16 + k) - 16)  BY <2>1, <3>2 DEF Table
    <3> QED BY <3>1, <3>2, <3>3, BenchmarkSteps
  <2> QED BY <2>1, <2>2, CacheSteps, BenchmarkSteps, BeginsGrows
<1> QED BY <1>2, <1>3, <1>4, <1>5, <1>6 DEF CommandNames

-----------------------------------------------------------------------------
(* Where a command is when it takes a step of a kind.                        *)

\* the line on which a command starts a server for the first time
First(c) == IF c \in OnDbgen THEN 2 ELSE IF c \in OnCache THEN 5 ELSE 1

\* the steps that the queries of the benchmark have taken, if not negative
Behind == line - Base(command) - 4

\* The number of steps is that of the table, and no command has none.
LEMMA Sizes ==
  /\ \A c \in CommandNames : Len(StepsOf(c)) = Size(c) /\ Size(c) \in Nat
  /\ \A c \in CommandNames : Base(c) \in Nat /\ Base(c) <= Size(c)
  /\ StepsOf("none") = <<>>
<1>1. NumQueries \in Nat  BY CommandsAssumption
<1>2. \A c \in CommandNames : Base(c) \in Nat /\ Size(c) \in Nat /\ Base(c) <= Size(c)
  BY <1>1 DEF Size, Base
<1>3. StepsOf("none") = <<>>  BY DEF StepsOf
<1> QED BY <1>2, <1>3, CommandSteps

\* Steps of a kind are on the lines that the tables give for it.
LEMMA StepLines ==
  ASSUME NEW step, At(step), command \in CommandNames \cup {"none"}, line \in Nat, line >= 1
  PROVE  /\ command \in CommandNames /\ todo = <<>> /\ line <= Size(command)
         /\ step = "stop" => line = 1 /\ command \in OnDbgen \cup OnCache
         /\ step = "reset" => line = 2 /\ command \in OnDbgen
         /\ step = "start" => \/ line = 3 /\ command \in OnDbgen
                              \/ line = 5 /\ command \in OnCache
         /\ step = "drop" => line = 4 /\ command \in OnDbgen
         /\ step = "create" => line = 5 /\ command \in OnDbgen
         /\ step = "schema" => line = 6 /\ command \in OnDbgen
         /\ step = "load" => line = 7 /\ command \in OnDbgen
         /\ step = "rm" => line = 3 /\ command \in OnCache
         /\ step = "unzip" => line = 4 /\ command \in OnCache
         /\ step = "check" => line \in 8 .. 16 /\ command \in OnCache
         /\ step = "header" => Behind = -1 /\ command \in Benchmarks
         /\ step = "query" => Behind >= 0 /\ Behind % 4 \in {0, 1} /\ command \in Benchmarks
         /\ step = "restart" => /\ Behind < -1 \/ (Behind >= 0 /\ Behind % 4 = 2)
                                /\ line >= First(command)
                                /\ command \in OnDbgen => line >= 8
         /\ step = "sleep" => /\ Behind < -1 \/ (Behind >= 0 /\ Behind % 4 = 3)
                              /\ line > First(command) \/ (line = 2 /\ command \in OnCache)
                              /\ command \in OnDbgen => line >= 8
<1> DEFINE b == Base(command)
<1>1. command \in CommandNames /\ todo = <<>> /\ line <= Size(command)
  <2>1. command # "none"  BY Sizes DEF At
  <2> QED BY <2>1, Sizes DEF At
<1>2. step = Table(command, line)
  BY <1>1, Sizes, CommandSteps DEF At, Begins
<1>3. b \in {0, 7, 16} /\ (b = 7 <=> command \in OnDbgen) /\ (b = 16 <=> command \in OnCache)
  BY <1>1 DEF Base, OnDbgen, OnCache
<1>4. CASE line <= b /\ b = 7
  <2>1. line \in {1, 2, 3, 4, 5, 6, 7} /\ step = PrepareStep(line) /\ Behind < -1
    BY <1>2, <1>3, <1>4 DEF Table, Behind
  <2> HIDE DEF b
  <2> QED BY <1>1, <1>3, <1>4, <2>1 DEF PrepareStep, First, OnDbgen, OnCache
<1>5. CASE line <= b /\ b = 16
  <2>1. line \in 1 .. 16 /\ step = CacheStep(line) /\ Behind < -1
    BY <1>2, <1>3, <1>5 DEF Table, Behind
  <2>2. command \notin OnDbgen /\ command \in OnCache  BY <1>3, <1>5
  <2>3. First(command) = 5  BY <2>2 DEF First
  <2>4. line \in {1, 2, 3, 4, 5, 6, 7, 8, 9, 10, 11, 12, 13, 14, 15, 16}  BY <2>1
  <2> QED BY <1>1, <2>1, <2>2, <2>3, <2>4 DEF CacheStep
<1>6. CASE line > b
  <2> DEFINE k == line - b
  <2>1. step = BenchmarkStep(k) /\ k \in Nat /\ k >= 1
    BY <1>2, <1>3, <1>6 DEF Table
  <2>2. command \in Benchmarks
    BY <1>1, <1>3, <1>6 DEF Size
  <2>3. Behind = k - 4 /\ line = b + k  BY <1>3 DEF Behind
  <2>4. /\ line > First(command) \/ (k = 1 /\ line = 1 /\ First(command) = 1)
        /\ command \in OnDbgen => line >= 8
    BY <1>3, <2>1, <2>3 DEF First
  <2>0. First(command) \in Nat /\ b \in Nat  BY <1>3 DEF First
  <2> HIDE DEF k, b
  <2>5. CASE k = 1
    <3>1. step = "restart"  BY <2>1, <2>5 DEF BenchmarkStep
    <3> QED BY <1>1, <2>0, <2>3, <2>4, <2>5, <3>1
  <2>6. CASE k = 2
    <3>1. step = "sleep"  BY <2>1, <2>6 DEF BenchmarkStep
    <3> QED BY <1>1, <2>3, <2>4, <2>6, <3>1
  <2>7. CASE k = 3
    <3>1. step = "header"  BY <2>1, <2>7 DEF BenchmarkStep
    <3> QED BY <1>1, <2>2, <2>3, <2>7, <3>1
  <2>8. CASE k > 3
    <3>1. (k - 4) % 4 \in 0 .. 3 /\ k - 4 >= 0  BY <2>1, <2>8
    <3>2. /\ (k - 4) % 4 \in {0, 1} => step = "query"
          /\ (k - 4) % 4 = 2 => step = "restart"
          /\ (k - 4) % 4 = 3 => step = "sleep"
      BY <2>1, <2>8, <3>1 DEF BenchmarkStep
    <3>3. line > First(command) /\ line >= First(command)  BY <2>0, <2>3, <2>4, <2>8
    <3>4. Behind >= 0 /\ Behind % 4 = (k - 4) % 4  BY <2>3, <3>1
    <3>5. /\ step \in {"query", "restart", "sleep"}
          /\ step = "query" => Behind % 4 \in {0, 1}
          /\ step = "restart" => Behind % 4 = 2
          /\ step = "sleep" => Behind % 4 = 3
      BY <3>1, <3>2, <3>4
    <3> QED BY <1>1, <2>2, <2>4, <3>3, <3>4, <3>5
  <2> QED BY <2>1, <2>5, <2>6, <2>7, <2>8
<1> QED BY <1>3, <1>4, <1>5, <1>6

-----------------------------------------------------------------------------
(* Types, and the number of rows.                                            *)

ServerTypeOK ==
  /\ server \in [Slots -> Statuses]
  /\ detached \subseteq Slots
  /\ dir \in {"absent", "empty", "cluster"}
  /\ db \in {"none", "created", "schema", "loaded"}
  /\ faults \subseteq Faults /\ numFaults \in 0 .. MaxFaults

\* what postgres.sh has to do is the end of one of its commands
Stopping == <<"pg_ctl stop">>
Starting == {<<"wait">>, <<"launch", "wait">>, <<"pg_ctl stop", "launch", "wait">>}
Clearing == <<"mkdir", "launch", "wait">>

TodoInv ==
  /\ todo \in {<<>>, Stopping, Clearing} \cup Starting
  /\ todo = Stopping => line = 2 /\ command \in OnDbgen \cup OnCache
  /\ todo \notin {<<>>, Stopping} => line > First(command)
  /\ todo = Clearing => command \in OnDbgen /\ line = 3

\* every turn of the queries adds two rows
RowsInv ==
  Behind >= 0 =>
    \/ Behind % 4 \in {0, 1} /\ Len(rows) = 2 * (Behind \div 4) + (Behind % 4)
    \/ Behind % 4 \in {2, 3} /\ Len(rows) = 2 * (Behind \div 4) + 2

TypeInv == TypeOK /\ TodoInv /\ RowsInv

\* The lists of steps of postgres.sh, step by step.
LEMMA Tails ==
  /\ Stopping # <<>> /\ Head(Stopping) = "pg_ctl stop" /\ Tail(Stopping) = <<>>
  /\ Clearing # <<>> /\ Head(Clearing) = "mkdir" /\ Tail(Clearing) = <<"launch", "wait">>
  /\ <<"launch", "wait">> # <<>>
  /\ Head(<<"launch", "wait">>) = "launch" /\ Tail(<<"launch", "wait">>) = <<"wait">>
  /\ <<"wait">> # <<>> /\ Head(<<"wait">>) = "wait" /\ Tail(<<"wait">>) = <<>>
  /\ restart_running # <<>> /\ Head(restart_running) = "pg_ctl stop"
  /\ Tail(restart_running) = <<"launch", "wait">>
  /\ restart_running \notin {Stopping, Clearing, <<"launch", "wait">>, <<"wait">>}
  /\ Stopping \notin {Clearing, <<"launch", "wait">>, <<"wait">>}
  /\ Clearing \notin {<<"launch", "wait">>, <<"wait">>}
  /\ <<"launch", "wait">> # <<"wait">>
  /\ restart_running \in Starting
BY DEF Stopping, Clearing, Starting, restart_running

\* The environment and postgres.sh keep the types of the server's state.
LEMMA ServerTypes ==
  ASSUME ServerTypeOK,
         Environment \/ PgCtlStop \/ Launch \/ Sleep \/ RemoveDir \/ PrepareDirectories
  PROVE  ServerTypeOK'
<1>0. MaxFaults \in Nat  BY FaultsAssumption
<1>1. ASSUME NEW kind, Failing(kind)
      PROVE  faults' \subseteq Faults /\ numFaults' \in 0 .. MaxFaults
  BY <1>0, <1>1 DEF Failing, ServerTypeOK
<1>2. ASSUME NoFailure
      PROVE  faults' \subseteq Faults /\ numFaults' \in 0 .. MaxFaults
  BY <1>2 DEF NoFailure, ServerTypeOK
<1>3. ASSUME NEW s \in Slots, Gone(s)
      PROVE  /\ server' \in [Slots -> Statuses] /\ detached' \subseteq Slots
             /\ dir' = dir /\ db' = db
  BY <1>3 DEF Gone, ServerTypeOK, Statuses
<1>4. CASE Environment
  <2>1. PICK s \in Slots : Settles(s) \/ BootFails(s) \/ ServerDies(s) \/ DetachedEnds(s)
    BY <1>4 DEF Environment
  <2>2. CASE BootEnds(s)
    BY <2>2 DEF BootEnds, ServerTypeOK, Statuses
  <2>3. CASE StopEnds(s)
    BY <1>2, <1>3, <2>3 DEF StopEnds, ServerTypeOK
  <2>4. CASE BootFails(s)
    BY <1>1, <1>3, <2>4 DEF BootFails, ServerTypeOK
  <2>5. CASE ServerDies(s)
    BY <1>1, <1>3, <2>5 DEF ServerDies, ServerTypeOK
  <2>6. CASE DetachedEnds(s)
    BY <1>2, <1>3, <2>6 DEF DetachedEnds, ServerTypeOK
  <2> QED BY <2>1, <2>2, <2>3, <2>4, <2>5, <2>6 DEF Settles
<1>5. CASE PgCtlStop
  <2>1. CASE UNCHANGED serverVars
    BY <2>1 DEF serverVars, ServerTypeOK
  <2>2. ASSUME NEW s \in Alive, NoFailure, Gone(s)  PROVE ServerTypeOK'
    <3>1. s \in Slots  BY <2>2 DEF Alive, With
    <3> QED BY <3>1, <2>2, <1>2, <1>3 DEF ServerTypeOK
  <2>3. ASSUME NEW s \in Alive, NEW kind, Failing(kind), NEW how \in Statuses,
               server' = [server EXCEPT ![s] = how], UNCHANGED <<detached, dir, db>>
        PROVE  ServerTypeOK'
    <3>1. s \in Slots  BY <2>3 DEF Alive, With
    <3>2. server' \in [Slots -> Statuses]  BY <3>1, <2>3 DEF ServerTypeOK
    <3> QED BY <3>2, <2>3, <1>1 DEF ServerTypeOK
  <2>4. "exiting" \in Statuses /\ "stopping" \in Statuses  BY DEF Statuses
  <2>5. \A s \in Alive : server[s] \in Statuses
    BY DEF Alive, With, ServerTypeOK
  <2> QED BY <1>5, <2>1, <2>2, <2>3, <2>4, <2>5 DEF PgCtlStop
<1>6. CASE Launch
  BY <1>6 DEF Launch, With, ServerTypeOK, Statuses
<1>7. CASE Sleep
  BY <1>1, <1>2, <1>7 DEF Sleep, ServerTypeOK
<1>8. CASE RemoveDir
  BY <1>8 DEF RemoveDir, ServerTypeOK, Alive, With
<1>9. CASE PrepareDirectories
  BY <1>9 DEF PrepareDirectories, ServerTypeOK, Alive, With
<1> QED BY <1>4, <1>5, <1>6, <1>7, <1>8, <1>9

\* It holds at first.
LEMMA InitType == Init => TypeInv
<1> SUFFICES ASSUME Init PROVE TypeInv
  OBVIOUS
<1>1. line = 1 /\ line \in 1 .. Len(StepsOf(command)) + 1
  BY Sizes DEF Init
<1>2. ServerTypeOK
  BY FaultsAssumption DEF Init, ServerTypeOK, Statuses
<1>3. NumQueries \in Nat /\ MaxCommands \in Nat /\ 2 * NumQueries >= 0
  BY CommandsAssumption
<1>4. TypeOK
  <2>1. rows \in Seq(BOOLEAN) /\ Len(rows) <= 2 * NumQueries  BY <1>3 DEF Init
  <2>2. todo \in Seq({"pg_ctl stop", "launch", "mkdir", "wait"})  BY DEF Init
  <2>3. command \in Commands \cup {"none"} /\ commands \in 0 .. MaxCommands
    BY <1>3 DEF Init
  <2>4. prepared \in BOOLEAN /\ settled \in BOOLEAN  BY DEF Init
  <2> QED BY <1>1, <1>2, <2>1, <2>2, <2>3, <2>4 DEF TypeOK, ServerTypeOK
<1>5. TodoInv  BY Tails DEF Init, TodoInv
<1>6. Behind = -3
  <2>1. line = 1 /\ Base(command) = 0  BY DEF Init, Base, OnDbgen, OnCache
  <2> QED BY <2>1 DEF Behind
<1> QED BY <1>4, <1>5, <1>6 DEF TypeInv, RowsInv

\* What the driver's own variables are before and after its next step.
LEMMA TypeFacts ==
  ASSUME TypeInv
  PROVE  /\ ServerTypeOK
         /\ command \in CommandNames \cup {"none"} /\ line \in Nat /\ line >= 1
         /\ Base(command) \in {0, 7, 16} /\ First(command) \in 1 .. 5
         /\ Behind \in Int /\ Len(rows) \in Nat /\ rows \in Seq(BOOLEAN)
         /\ NumQueries \in Nat
         /\ Behind <= 4 * NumQueries
<1>1. ServerTypeOK /\ rows \in Seq(BOOLEAN) BY DEF TypeInv, TypeOK, ServerTypeOK
<1>2. command \in CommandNames \cup {"none"}
  BY CommandsAssumption DEF TypeInv, TypeOK
<1>3. NumQueries \in Nat  BY CommandsAssumption
<1>4. Base(command) \in {0, 7, 16} /\ First(command) \in 1 .. 5
  BY DEF Base, First
<1>5. line \in Nat /\ line >= 1 /\ line <= Base(command) + 4 + 4 * NumQueries
  <2>1. CASE command = "none"
    <3>1. Len(StepsOf(command)) = 0  BY <2>1, Sizes
    <3>2. line \in 1 .. 0 + 1  BY <3>1 DEF TypeInv, TypeOK
    <3> QED BY <3>2, <1>3, <1>4
  <2>2. CASE command \in CommandNames
    <3>1. Len(StepsOf(command)) = Size(command) /\ line \in 1 .. Size(command) + 1
      BY <2>2, Sizes DEF TypeInv, TypeOK
    <3> QED BY <3>1, <1>3, <1>4 DEF Size
  <2> QED BY <1>2, <2>1, <2>2
<1>6. Behind \in Int /\ Behind <= 4 * NumQueries  BY <1>3, <1>4, <1>5 DEF Behind
<1> QED BY <1>1, <1>2, <1>3, <1>4, <1>5, <1>6, LenProperties

\* A step of the driver that is not a query keeps the rows and goes on one line.
LEMMA GoesOn ==
  ASSUME TypeInv, NEW step \in StepNames \ {"header", "query"}, At(step), line' = line + 1,
         UNCHANGED <<command, rows>>
  PROVE  /\ line' \in 1 .. Len(StepsOf(command)) + 1
         /\ RowsInv'
<1>1. line' \in 1 .. Len(StepsOf(command)) + 1
  BY DEF TypeInv, TypeOK, At
<1>2. Behind' = Behind + 1 /\ Behind \in Int
  BY TypeFacts DEF Behind, Base
<1>3. Behind < -1 \/ (Behind >= 0 /\ Behind % 4 \in {2, 3})
  <2>1. CASE step \in {"restart", "sleep"}
    BY <2>1, TypeFacts, StepLines
  <2>2. CASE step \in StepNames \ {"restart", "sleep", "header", "query"}
    <3>1. \/ line <= 7 /\ command \in OnDbgen
          \/ line <= 16 /\ command \in OnCache
      BY <2>2, TypeFacts, StepLines DEF StepNames
    <3> QED BY <3>1, TypeFacts DEF Behind, Base, OnDbgen, OnCache
  <2> QED BY <2>1, <2>2
<1>4. CASE Behind < -1
  BY <1>1, <1>2, <1>4 DEF RowsInv
<1>5. CASE Behind >= 0 /\ Behind % 4 \in {2, 3}
  <2> DEFINE q == Behind \div 4
  <2>1. Len(rows) = 2 * q + 2
    BY <1>5 DEF TypeInv, RowsInv
  <2>2. \/ (Behind + 1) % 4 = 3 /\ (Behind + 1) \div 4 = q
        \/ (Behind + 1) % 4 = 0 /\ (Behind + 1) \div 4 = q + 1
    BY <1>2, <1>5
  <2>3. q \in Int  BY <1>2
  <2> HIDE DEF q
  <2>4. Len(rows') = 2 * q + 2  BY <2>1
  <2>5. \/ Behind' % 4 = 3 /\ Behind' \div 4 = q
        \/ Behind' % 4 = 0 /\ Behind' \div 4 = q + 1
    BY <1>2, <2>2
  <2>6. CASE Behind' % 4 = 3 /\ Behind' \div 4 = q
    <3>1. Behind' % 4 \in {2, 3} /\ Len(rows') = 2 * (Behind' \div 4) + 2
      BY <2>4, <2>6
    <3> QED BY <1>1, <3>1, Zenon DEF RowsInv
  <2>7. CASE Behind' % 4 = 0 /\ Behind' \div 4 = q + 1
    <3>1. 2 * (q + 1) + 0 = 2 * q + 2  BY <2>3
    <3>2. Behind' % 4 \in {0, 1} /\ Len(rows') = 2 * (Behind' \div 4) + (Behind' % 4)
      BY <2>4, <2>7, <3>1
    <3> QED BY <1>1, <3>2, Zenon DEF RowsInv
  <2> QED BY <2>5, <2>6, <2>7
<1> QED BY <1>3, <1>4, <1>5

\* A query adds a row.
LEMMA QueryAdds ==
  ASSUME TypeInv, At("query"), line' = line + 1, UNCHANGED command, NEW r \in BOOLEAN,
         rows' = Append(rows, r)
  PROVE  /\ line' \in 1 .. Len(StepsOf(command)) + 1
         /\ rows' \in Seq(BOOLEAN) /\ Len(rows') <= 2 * NumQueries
         /\ RowsInv'
<1>1. line' \in 1 .. Len(StepsOf(command)) + 1
  BY DEF TypeInv, TypeOK, At
<1>2. Behind' = Behind + 1 /\ Behind \in Int
  BY TypeFacts DEF Behind, Base
<1>3. Behind >= 0 /\ Behind % 4 \in {0, 1} /\ line <= Size(command)
  BY TypeFacts, StepLines
<1>4. Behind <= 4 * NumQueries - 1 /\ NumQueries \in Nat
  <2>1. command \in Benchmarks /\ Size(command) = Base(command) + (3 + 4 * NumQueries)
    BY TypeFacts, StepLines DEF Size
  <2> QED BY <2>1, <1>3, TypeFacts DEF Behind
<1>5. rows' \in Seq(BOOLEAN) /\ Len(rows') = Len(rows) + 1
  BY TypeFacts, AppendProperties
<1> DEFINE q == Behind \div 4  m == Behind % 4
<1>6. Len(rows) = 2 * q + m /\ m \in {0, 1}
  <2> HIDE DEF m, q
  <2>1. \/ m \in {0, 1} /\ Len(rows) = 2 * q + m
        \/ m \in {2, 3} /\ Len(rows) = 2 * q + 2
    BY <1>3, Zenon DEF m, q, TypeInv, RowsInv
  <2>2. m \in {0, 1}  BY <1>3 DEF m
  <2> QED BY <2>1, <2>2
<1>7. /\ (Behind + 1) % 4 = m + 1 /\ (Behind + 1) \div 4 = q
      /\ q \in Nat /\ q <= NumQueries - 1
  BY <1>2, <1>3, <1>4
<1>a. Behind' % 4 = m + 1 /\ Behind' \div 4 = q
  BY <1>2, <1>7
<1> HIDE DEF q, m
<1>8. Len(rows') <= 2 * NumQueries
  BY <1>4, <1>5, <1>6, <1>7
<1>9. RowsInv'
  <2>1. Len(rows') = 2 * q + (m + 1)
    BY <1>5, <1>6, <1>7
  <2>2. CASE m = 0
    <3>1. Behind' % 4 = 1 /\ Behind' \div 4 = q /\ Len(rows') = 2 * q + 1
      BY <1>7, <1>a, <2>1, <2>2
    <3>2. Behind' % 4 \in {0, 1} /\ Len(rows') = 2 * (Behind' \div 4) + (Behind' % 4)
      BY <3>1
    <3> QED BY <3>2, Zenon DEF RowsInv
  <2>3. CASE m = 1
    <3>1. Behind' % 4 = 2 /\ Behind' \div 4 = q /\ Len(rows') = 2 * q + 2
      BY <1>7, <1>a, <2>1, <2>3
    <3>2. Behind' % 4 \in {2, 3} /\ Len(rows') = 2 * (Behind' \div 4) + 2
      BY <3>1
    <3> QED BY <3>2, Zenon DEF RowsInv
  <2> QED BY <1>6, <2>2, <2>3
<1> QED BY <1>1, <1>5, <1>8, <1>9

DriverTypeOK ==
  /\ command \in Commands \cup {"none"}
  /\ prepared \in BOOLEAN /\ settled \in BOOLEAN
  /\ commands \in 0 .. MaxCommands
  /\ Len(rows) <= 2 * NumQueries

\* It gives the types of TypeOK.
LEMMA TypeParts ==
  TypeInv <=> /\ ServerTypeOK /\ DriverTypeOK /\ TodoInv /\ RowsInv
              /\ line \in 1 .. Len(StepsOf(command)) + 1
              /\ rows \in Seq(BOOLEAN)
<1>1. TodoInv => todo \in Seq({"pg_ctl stop", "launch", "mkdir", "wait"})
  <2> DEFINE S == {"pg_ctl stop", "launch", "mkdir", "wait"}
  <2>1. /\ <<>> \in Seq(S) /\ Stopping \in Seq(S) /\ Clearing \in Seq(S)
        /\ \A t \in Starting : t \in Seq(S)
    BY DEF Stopping, Clearing, Starting
  <2> QED BY <2>1 DEF TodoInv
<1> QED BY <1>1, Zenon DEF TypeInv, TypeOK, ServerTypeOK, DriverTypeOK

\* The next steps of postgres.sh are the ends of its commands.
LEMMA TodoStep ==
  ASSUME TypeInv, [Next]_vars
  PROVE  TodoInv'
<1>0. TodoInv /\ line \in Nat /\ First(command) \in Nat
      /\ command \in CommandNames \cup {"none"} /\ line >= 1
  BY TypeFacts DEF TypeInv
<1>1. ASSUME todo' = <<>>  PROVE TodoInv'
  BY <1>1, Tails DEF TodoInv
<1>2. ASSUME NEW c \in Commands, Begin(c)  PROVE TodoInv'
  BY <1>1, <1>2 DEF Begin, Over
<1>3. CASE PostgresSh
  <2>1. command' = command  BY <1>3 DEF PostgresSh, OwnUnchanged
  <2>2. CASE At("stop") /\ DoneBy(Stopping)
    <3>1. line = 1 /\ command \in OnDbgen \cup OnCache  BY <1>0, <2>2, StepLines
    <3>2. todo' = Stopping /\ line' = 2  BY <2>2, <3>1 DEF DoneBy
    <3>3. Stopping # Clearing  BY Tails
    <3> QED BY <2>1, <3>1, <3>2, <3>3 DEF TodoInv
  <2>3. CASE At("start") /\ DoneBy(<<"launch", "wait">>)
    <3>1. line >= First(command)
      <4>1. (line = 3 /\ command \in OnDbgen) \/ (line = 5 /\ command \in OnCache)
        BY <1>0, <2>3, StepLines
      <4> QED BY <4>1 DEF First, OnDbgen, OnCache
    <3>2. line' > First(command)'  BY <1>0, <2>1, <2>3, <3>1 DEF DoneBy, First
    <3> QED BY <2>3, <3>2, Tails DEF DoneBy, TodoInv, Starting
  <2>4. CASE At("reset") /\ DoneBy(Clearing)
    <3>1. line = 2 /\ command \in OnDbgen  BY <1>0, <2>4, StepLines
    <3>2. line' = 3 /\ line' > First(command)'  BY <2>1, <2>4, <3>1 DEF DoneBy, First
    <3> QED BY <2>1, <2>4, <3>1, <3>2, Tails DEF DoneBy, TodoInv
  <2>5. CASE At("restart") /\ (DoneBy(restart_running) \/ DoneBy(<<"launch", "wait">>))
    <3>1. line >= First(command)  BY <1>0, <2>5, StepLines
    <3>2. line' > First(command)'  BY <1>0, <2>1, <2>5, <3>1 DEF DoneBy, First
    <3>3. todo' \in Starting /\ todo' \notin {Stopping, Clearing}
      BY <2>5, Tails DEF DoneBy, Starting
    <3> QED BY <3>2, <3>3 DEF TodoInv
  <2> QED BY <1>3, <2>2, <2>3, <2>4, <2>5, <1>1 DEF PostgresSh, Stopping, Clearing, At, Done
<1>4. CASE ServerStep
  <2>1. todo # <<>> /\ todo' = Tail(todo) /\ line' = line /\ command' = command
    BY <1>4 DEF ServerStep, AtServer, ServerDone, OwnUnchanged
  <2>2. CASE todo \in {Stopping, <<"wait">>}
    BY <1>1, <2>1, <2>2, Tails
  <2>3. CASE todo \in {Clearing, <<"launch", "wait">>, restart_running}
    <3>1. todo' \in {<<"launch", "wait">>, <<"wait">>}  BY <2>1, <2>3, Tails
    <3>2. line' > First(command)'
      BY <1>0, <2>1, <2>3, Tails DEF TodoInv, First
    <3> QED BY <3>1, <3>2, Tails DEF TodoInv, Starting
  <2> QED BY <1>0, <2>1, <2>2, <2>3 DEF TodoInv, Starting, restart_running
<1>5. CASE ShellStep \/ Unzip \/ Sql \/ CheckForRecovery \/ Header \/ Query
  BY <1>1, <1>5
     DEF ShellStep, Unzip, Sql, Statement, CheckForRecovery, Header, Query, At, Done
<1>6. CASE UNCHANGED driverVars
  BY <1>0, <1>6 DEF driverVars, TodoInv, First
<1>7. CASE UNCHANGED vars
  BY <1>6, <1>7 DEF vars
<1> QED BY <1>2, <1>3, <1>4, <1>5, <1>6, <1>7 DEF Next, Step

\* Every step keeps it.
LEMMA TypeStep == TypeInv /\ [Next]_vars => TypeInv'
<1> SUFFICES ASSUME TypeInv, [Next]_vars PROVE TypeInv'
  OBVIOUS
<1> DEFINE LineOK == line \in 1 .. Len(StepsOf(command)) + 1
           Rest == LineOK /\ DriverTypeOK /\ RowsInv /\ rows \in Seq(BOOLEAN)
<1>0. ServerTypeOK /\ Rest /\ NumQueries \in Nat /\ MaxCommands \in Nat
  BY TypeFacts, TypeParts, CommandsAssumption
<1>1. TodoInv'  BY TodoStep
<1>2. SUFFICES ServerTypeOK' /\ Rest'
  <2> HIDE DEF LineOK
  <2>1. ServerTypeOK' /\ DriverTypeOK' /\ TodoInv' /\ RowsInv' /\ rows' \in Seq(BOOLEAN)
        /\ LineOK'
    BY <1>1, <1>2
  <2> QED BY <2>1, TypeParts, PTL DEF LineOK
<1>3. ASSUME UNCHANGED serverVars  PROVE ServerTypeOK'
  BY <1>0, <1>3 DEF serverVars, ServerTypeOK
<1>4. ASSUME OwnUnchanged  PROVE DriverTypeOK' /\ rows' \in Seq(BOOLEAN)
  BY <1>0, <1>4 DEF OwnUnchanged, DriverTypeOK
<1>5. ASSUME OwnUnchanged, UNCHANGED line  PROVE Rest'
  <2>1. Behind' = Behind  BY <1>5 DEF OwnUnchanged, Behind, Base
  <2>2. RowsInv'  BY <1>0, <1>5, <2>1 DEF OwnUnchanged, RowsInv
  <2>3. LineOK'  BY <1>0, <1>5 DEF OwnUnchanged, StepsOf
  <2> QED BY <1>4, <1>5, <2>2, <2>3
<1>6. ASSUME OwnUnchanged, NEW step \in StepNames \ {"header", "query"}, At(step),
             line' = line + 1
      PROVE  Rest'
  <2>1. command' = command /\ rows' = rows  BY <1>6 DEF OwnUnchanged
  <2>2. line' \in 1 .. Len(StepsOf(command)) + 1 /\ RowsInv'
    BY <1>6, <2>1, GoesOn
  <2>3. LineOK'  BY <2>1, <2>2 DEF StepsOf
  <2> QED BY <1>4, <1>6, <2>2, <2>3
<1> HIDE DEF LineOK
<1>a. {"stop", "reset", "start", "restart", "rm", "sleep", "unzip", "drop", "create",
       "schema", "load", "check"} \subseteq StepNames \ {"header", "query"}
  BY DEF StepNames
<1>7. ASSUME NEW c \in Commands, Begin(c)  PROVE ServerTypeOK' /\ Rest'
  <2>1. c \in CommandNames  BY CommandsAssumption
  <2>2. Len(StepsOf(c)) \in Nat /\ Base(c) \in Nat  BY <2>1, Sizes
  <2>3. command' = c /\ line' = 1 /\ rows' = rows  BY <1>7 DEF Begin
  <2>4. LineOK'
    <3>1. StepsOf(command)' = StepsOf(c)  BY <2>3 DEF StepsOf
    <3> QED BY <2>2, <2>3, <3>1 DEF LineOK
  <2>5. RowsInv'
    <3>1. Base(command)' = Base(c)  BY <2>3 DEF Base
    <3>2. Behind' = 1 - Base(c) - 4  BY <2>3, <3>1 DEF Behind
    <3>3. ~(Behind' >= 0)  BY <2>2, <3>2
    <3> QED BY <3>3, Zenon DEF RowsInv
  <2>6. settled' \in BOOLEAN  BY <1>7 DEF Begin, Settled
  <2>7. commands' \in 0 .. MaxCommands  BY <1>0, <1>7 DEF Begin, DriverTypeOK
  <2>8. DriverTypeOK'  BY <1>0, <1>7, <2>3, <2>6, <2>7 DEF Begin, DriverTypeOK
  <2> QED BY <1>0, <1>3, <1>7, <2>3, <2>4, <2>5, <2>8 DEF Begin
<1>8. CASE PostgresSh
  <2>1. UNCHANGED serverVars /\ OwnUnchanged  BY <1>8 DEF PostgresSh
  <2>2. \E step \in {"stop", "start", "reset", "restart"} : At(step) /\ line' = line + 1
    BY <1>8 DEF PostgresSh, Done, DoneBy
  <2> QED BY <1>3, <1>6, <1>a, <2>1, <2>2
<1>9. CASE ServerStep
  <2>1. PgCtlStop \/ Launch \/ PrepareDirectories \/ Sleep  BY <1>9 DEF ServerStep
  <2>2. OwnUnchanged /\ line' = line  BY <1>9 DEF ServerStep, ServerDone
  <2> QED BY <1>0, <1>5, <2>1, <2>2, ServerTypes
<1>10. CASE ShellStep
  <2>1. RemoveDir \/ Sleep  BY <1>10 DEF ShellStep
  <2>2. OwnUnchanged /\ line' = line + 1 /\ \E step \in {"rm", "sleep"} : At(step)
    BY <1>10 DEF ShellStep, Done
  <2> QED BY <1>0, <1>6, <1>a, <2>1, <2>2, ServerTypes
<1>11. CASE Unzip
  <2>1. ServerTypeOK'  BY <1>0, <1>11 DEF Unzip, ServerTypeOK
  <2> QED BY <1>6, <1>11, <1>a, <2>1 DEF Unzip, Done
<1>12. CASE Sql
  <2>1. ASSUME NEW step \in {"drop", "create", "schema", "load"}, NEW before,
               NEW after \in {"none", "created", "schema", "loaded"},
               Statement(step, before, after)
        PROVE  ServerTypeOK' /\ Rest'
    <3>1. db' \in {"none", "created", "schema", "loaded"}
      BY <1>0, <2>1 DEF Statement, ServerTypeOK
    <3>2. faults' \subseteq Faults /\ numFaults' \in 0 .. MaxFaults
      BY <1>0, <2>1, FaultsAssumption DEF Statement, NoFailure, Failing, ServerTypeOK
    <3>3. ServerTypeOK'  BY <1>0, <2>1, <3>1, <3>2 DEF Statement, ServerTypeOK
    <3> QED BY <1>6, <1>a, <2>1, <3>3 DEF Statement, Done
  <2> QED BY <1>12, <2>1 DEF Sql
<1>13. CASE CheckForRecovery
  BY <1>3, <1>6, <1>13, <1>a DEF CheckForRecovery, Done
<1>14. CASE Header
  <2>1. At("header") /\ line' = line + 1 /\ rows' = <<>> /\ command' = command
    BY <1>14 DEF Header, Done
  <2>2. Behind = -1 /\ Behind' = Behind + 1
    BY <2>1, TypeFacts, StepLines DEF Behind, Base
  <2>3. RowsInv'
    <3>1. Behind' % 4 \in {0, 1} /\ Len(rows') = 2 * (Behind' \div 4) + (Behind' % 4)
      <4>1. Behind' = 0 /\ Len(rows') = 0 /\ 0 % 4 = 0 /\ 0 \div 4 = 0  BY <2>1, <2>2
      <4> QED BY <4>1
    <3> QED BY <3>1, Zenon DEF RowsInv
  <2>4. LineOK'
    <3>1. StepsOf(command)' = StepsOf(command)  BY <2>1 DEF StepsOf
    <3> QED BY <1>0, <2>1, <3>1 DEF LineOK, At
  <2>5. rows' \in Seq(BOOLEAN) /\ Len(rows') <= 2 * NumQueries  BY <1>0, <2>1
  <2>6. prepared' \in BOOLEAN  BY <1>14 DEF Header
  <2> QED BY <1>0, <1>3, <1>14, <2>3, <2>4, <2>5, <2>6 DEF Header, DriverTypeOK
<1>15. CASE Query
  <2>1. At("query") /\ line' = line + 1 /\ command' = command
    BY <1>15 DEF Query, Done
  <2>2. PICK r \in BOOLEAN : rows' = Append(rows, r)
    BY <1>15 DEF Query
  <2>3. /\ line' \in 1 .. Len(StepsOf(command)) + 1 /\ RowsInv'
        /\ rows' \in Seq(BOOLEAN) /\ Len(rows') <= 2 * NumQueries
    BY <2>1, <2>2, QueryAdds
  <2>4. LineOK'  BY <2>1, <2>3 DEF LineOK, StepsOf
  <2>5. ServerTypeOK'
    <3>1. faults' \subseteq Faults /\ numFaults' \in 0 .. MaxFaults
      <4>1. NoFailure \/ Failing("client_fails")  BY <1>15, Zenon DEF Query
      <4> QED BY <1>0, <4>1, FaultsAssumption DEF NoFailure, Failing, ServerTypeOK
    <3>2. UNCHANGED <<server, detached, dir, db>>  BY <1>15 DEF Query
    <3> QED BY <1>0, <3>1, <3>2 DEF ServerTypeOK
  <2>6. DriverTypeOK'  BY <1>0, <1>15, <2>3 DEF Query, DriverTypeOK
  <2> QED BY <2>3, <2>4, <2>5, <2>6
<1>16. CASE Environment /\ UNCHANGED driverVars
  BY <1>0, <1>5, <1>16, ServerTypes DEF driverVars, OwnUnchanged
<1>17. CASE UNCHANGED vars
  BY <1>3, <1>5, <1>17 DEF vars, driverVars, OwnUnchanged
<1> QED
  BY <1>7, <1>8, <1>9, <1>10, <1>11, <1>12, <1>13, <1>14, <1>15, <1>16, <1>17
     DEF Next, Step

\* It holds throughout.
LEMMA TypeAlways == Spec => []TypeInv
<1> QED BY InitType, TypeStep, PTL DEF Spec

\* Every variable of the driver has its type, and the file of results never holds
\* more than two rows for each query.
THEOREM TypeCorrect == Spec => []TypeOK
<1>1. TypeInv => TypeOK  BY DEF TypeInv
<1> QED BY <1>1, TypeAlways, PTL

-----------------------------------------------------------------------------
(* What postgres.sh sees, and what the environment does meanwhile.           *)

NoServer == \A s \in Slots : server[s] = "none"
OneServer == \A s, t \in Slots : server[s] # "none" /\ server[t] # "none" => s = t
NoneIn(statuses) == \A s \in Slots : server[s] \notin statuses
Serving == \E s \in Slots : server[s] = "serving"

\* An instance is listed unless it does not exist, and there are finitely many.
LEMMA ListedOnes ==
  ASSUME ServerTypeOK
  PROVE  /\ Listed = {s \in Slots : server[s] # "none"}
         /\ Alive = {s \in Slots : server[s] \in {"booting", "serving", "stopping"}}
         /\ IsFiniteSet(Listed)
<1>1. Listed = {s \in Slots : server[s] # "none"}
  <2>1. \A s \in Slots : server[s] \in Statuses  BY DEF ServerTypeOK
  <2> QED BY <2>1 DEF Listed, Alive, With, Statuses
<1>2. Alive = {s \in Slots : server[s] \in {"booting", "serving", "stopping"}}
  BY DEF Alive, With
<1>3. IsFiniteSet(Listed)
  <2>1. Listed \subseteq Slots  BY <1>1
  <2> QED BY <2>1, FaultsAssumption, FS_Subset
<1> QED BY <1>1, <1>2, <1>3

\* If there is one instance at most, postgres.sh sees whether there is one.
LEMMA Seen ==
  ASSUME ServerTypeOK
  PROVE  /\ Cardinality(Listed) <= 1 <=> OneServer
         /\ Cardinality(Listed) = 1 => ~NoServer
         /\ OneServer /\ Cardinality(Listed) # 1 => NoServer
         /\ OneServer /\ SeesNothing => NoneIn({"booting", "serving", "stopping"})
<1>0. /\ Listed = {s \in Slots : server[s] # "none"} /\ IsFiniteSet(Listed)
      /\ Cardinality(Listed) \in Nat
  BY ListedOnes, FS_CardinalityType
<1>1. Cardinality(Listed) = 0 <=> NoServer
  BY <1>0, FS_EmptySet DEF NoServer
<1>2. Cardinality(Listed) = 1 <=> \E s : Listed = {s}
  BY <1>0, FS_Singleton
<1>3. ASSUME OneServer  PROVE NoServer \/ Cardinality(Listed) = 1
  <2>1. ASSUME ~NoServer  PROVE \E s : Listed = {s}
    <3>1. PICK s \in Slots : server[s] # "none"  BY <2>1 DEF NoServer
    <3>2. Listed = {s}  BY <1>0, <1>3, <3>1 DEF OneServer
    <3> QED BY <3>2
  <2> QED BY <1>2, <2>1
<1>4. ASSUME Cardinality(Listed) <= 1  PROVE OneServer
  <2>1. Cardinality(Listed) = 0 \/ Cardinality(Listed) = 1  BY <1>0, <1>4
  <2> QED BY <1>0, <1>1, <1>2, <2>1 DEF OneServer, NoServer
<1>5. ASSUME OneServer, SeesNothing
      PROVE  NoneIn({"booting", "serving", "stopping"})
  <2>1. CASE Alive = {}
    BY <2>1, ListedOnes DEF NoneIn
  <2>2. CASE Cardinality(Listed) > 1
    BY <1>0, <1>1, <1>3, <1>5, <2>2
  <2> QED BY <1>5, <2>1, <2>2 DEF SeesNothing
<1>6. OneServer => Cardinality(Listed) <= 1  BY <1>1, <1>3
<1>7. Cardinality(Listed) = 1 => ~NoServer  BY <1>1
<1>8. OneServer /\ Cardinality(Listed) # 1 => NoServer  BY <1>3
<1> QED BY <1>4, <1>5, <1>6, <1>7, <1>8

\* The environment ends instances, and turns those that boot into serving ones; the
\* data directory is made then, at most.
LEMMA Surroundings ==
  ASSUME ServerTypeOK, Environment
  PROVE  /\ server' \in [Slots -> Statuses]
         /\ \A s \in Slots : \/ server'[s] = server[s] \/ server'[s] = "none"
                             \/ server[s] = "booting" /\ server'[s] = "serving"
         /\ detached' \subseteq detached /\ db' = db /\ dir' \in {dir, "cluster"}
         /\ faults \subseteq faults'
         /\ \A s \in Slots : server[s] = "serving" =>
              \/ server'[s] = "serving"
              \/ "server_dies" \in faults' \/ s \in detached
         /\ \A s \in Slots : server[s] = "booting" =>
              \/ server'[s] = "booting" \/ server'[s] = "serving"
              \/ "boot_fails" \in faults' \/ s \in detached \/ dir = "absent"
              \/ \E t \in Slots \ {s} : server[t] # "none"
<1>1. PICK s \in Slots : Settles(s) \/ BootFails(s) \/ ServerDies(s) \/ DetachedEnds(s)
  BY DEF Environment
<1>2. server' \in [Slots -> Statuses]  BY ServerTypes DEF ServerTypeOK
<1>3. server \in [Slots -> Statuses]  BY DEF ServerTypeOK
<1>4. CASE BootEnds(s)
  <2>1. CASE server' = [server EXCEPT ![s] = "none"]
    <3>1. dir = "absent" \/ s \in detached \/ Excluded(s)
      BY <1>3, <1>4, <2>1 DEF BootEnds
    <3>2. Excluded(s) => \E t \in Slots \ {s} : server[t] # "none"
      BY DEF Excluded, With
    <3> QED BY <1>2, <1>3, <1>4, <2>1, <3>1, <3>2 DEF BootEnds
  <2>2. CASE server' = [server EXCEPT ![s] = "serving"]
    BY <1>2, <1>3, <1>4, <2>2 DEF BootEnds
  <2> QED BY <1>4, <2>1, <2>2 DEF BootEnds
<1>5. CASE StopEnds(s)
  BY <1>2, <1>3, <1>5 DEF StopEnds, Gone, NoFailure
<1>6. CASE BootFails(s)
  BY <1>2, <1>3, <1>6 DEF BootFails, Failing, Gone
<1>7. CASE ServerDies(s)
  BY <1>2, <1>3, <1>7 DEF ServerDies, Failing, Gone
<1>8. CASE DetachedEnds(s)
  BY <1>2, <1>3, <1>8 DEF DetachedEnds, NoFailure, Gone
<1> QED BY <1>1, <1>4, <1>5, <1>6, <1>7, <1>8 DEF Settles

\* What has failed is never forgotten.
LEMMA FaultsGrow == [Next]_vars => faults \subseteq faults'
<1>1. ASSUME NEW kind, Failing(kind)  PROVE faults \subseteq faults'
  BY <1>1 DEF Failing
<1>2. ASSUME NoFailure \/ UNCHANGED serverVars  PROVE faults \subseteq faults'
  BY <1>2 DEF NoFailure, serverVars
<1>3. Environment => faults \subseteq faults'
  BY <1>1, <1>2
     DEF Environment, Settles, BootEnds, StopEnds, BootFails, ServerDies, DetachedEnds
<1>4. PgCtlStop \/ Launch \/ Sleep \/ RemoveDir \/ PrepareDirectories
        => faults \subseteq faults'
  BY <1>1, <1>2 DEF PgCtlStop, Launch, Sleep, RemoveDir, PrepareDirectories
<1>5. ServerStep \/ ShellStep => faults \subseteq faults'
  BY <1>4 DEF ServerStep, ShellStep
<1>6. Unzip => faults \subseteq faults'  BY DEF Unzip
<1>7. Sql \/ Query => faults \subseteq faults'
  BY <1>1, <1>2 DEF Sql, Statement, Query
<1>8. PostgresSh \/ CheckForRecovery \/ Header => faults \subseteq faults'
  BY <1>2 DEF PostgresSh, CheckForRecovery, Header
<1>9. (\E c \in Commands : Begin(c)) => faults \subseteq faults'
  BY <1>2 DEF Begin
<1>10. UNCHANGED vars => faults \subseteq faults'
  BY <1>2 DEF vars
<1> QED BY <1>3, <1>5, <1>6, <1>7, <1>8, <1>9, <1>10 DEF Next, Step

-----------------------------------------------------------------------------
(* No directory is pulled away.                                              *)

Calm == faults \cap {"stop_fails", "slow"} = {}

\* a server is on its way up only while postgres.sh waits for it, none is on its way
\* down, and there is none before the command has started its first
OneAtATime ==
  /\ detached = {}
  /\ OneServer /\ NoneIn({"stopping", "exiting"})
  /\ AtServer("wait") \/ NoneIn({"booting"})
  /\ AtServer("launch") \/ AtServer("mkdir") => NoServer
  /\ todo = <<>> /\ 1 < line /\ line <= First(command) => NoServer

CalmInv == Calm => OneAtATime

\* Where postgres.sh is when it has one of its steps to do.
LEMMA ServerLines ==
  ASSUME TypeInv
  PROVE  /\ AtServer("wait") => todo = <<"wait">>
         /\ AtServer("launch") => todo = <<"launch", "wait">>
         /\ AtServer("mkdir") => todo = Clearing
         /\ AtServer("pg_ctl stop") => todo \in {Stopping, restart_running}
         /\ \/ todo = <<>>
            \/ todo = Stopping /\ line = 2 /\ command \in OnDbgen \cup OnCache
            \/ todo \notin {<<>>, Stopping} /\ line > First(command)
         /\ todo # <<>> =>
              AtServer("wait") \/ AtServer("launch") \/ AtServer("mkdir")
                \/ AtServer("pg_ctl stop")
<1>1. todo \in {<<>>, Stopping, Clearing, <<"wait">>, <<"launch", "wait">>, restart_running}
  BY DEF TypeInv, TodoInv, Starting, restart_running
<1>2. /\ ~AtServer("wait") \/ todo = <<"wait">>
      /\ ~AtServer("launch") \/ todo = <<"launch", "wait">>
      /\ ~AtServer("mkdir") \/ todo = Clearing
      /\ ~AtServer("pg_ctl stop") \/ todo \in {Stopping, restart_running}
  BY <1>1, Tails DEF AtServer
<1>3. \/ todo = <<>>
      \/ todo = Stopping /\ line = 2 /\ command \in OnDbgen \cup OnCache
      \/ todo \notin {<<>>, Stopping} /\ line > First(command)
  <2>1. TodoInv  BY DEF TypeInv
  <2>2. CASE todo \in {<<>>, Stopping}
    BY <2>1, <2>2 DEF TodoInv
  <2>3. CASE todo \notin {<<>>, Stopping}
    BY <2>1, <2>3, Zenon DEF TodoInv
  <2> QED BY <2>2, <2>3
<1>4. todo # <<>> => AtServer("wait") \/ AtServer("launch") \/ AtServer("mkdir")
                      \/ AtServer("pg_ctl stop")
  BY <1>1, Tails DEF AtServer
<1> QED BY <1>2, <1>3, <1>4

\* A stop that neither fails nor takes too long leaves no server.
LEMMA StopWorks ==
  ASSUME ServerTypeOK, OneServer, NoneIn({"booting", "stopping", "exiting"}), PgCtlStop,
         faults' \cap {"slow", "stop_fails"} = {}
  PROVE  NoServer' /\ detached' \subseteq detached /\ dir' = dir /\ db' = db
<1>0. Slots' = Slots /\ server \in [Slots -> Statuses]  BY DEF ServerTypeOK
<1>1. CASE UNCHANGED serverVars /\ Cardinality(Listed) # 1
  BY <1>1, Seen DEF serverVars, NoServer
<1>2. CASE With("booting") \cup With("exiting") # {}
  BY <1>2 DEF With, NoneIn
<1>3. CASE \E s \in Alive : NoFailure /\ Gone(s)
  <2>1. PICK s \in Slots : server[s] # "none" /\ Gone(s)
    BY <1>3, ListedOnes
  <2>2. server' = [server EXCEPT ![s] = "none"]  BY <2>1 DEF Gone
  <2>3. \A t \in Slots : server'[t] = "none"  BY <1>0, <2>1, <2>2 DEF OneServer
  <2> QED BY <2>1, <2>3 DEF NoServer, Gone
<1>4. CASE Failing("slow") \/ Failing("stop_fails")
  BY <1>4 DEF Failing
<1> QED BY <1>1, <1>2, <1>3, <1>4 DEF PgCtlStop

\* There is one server at most at first.
LEMMA CalmInit == Init => CalmInv
<1> SUFFICES ASSUME Init PROVE OneAtATime
  BY DEF CalmInv
<1>1. ServerTypeOK  BY InitType, TypeParts
<1>2. OneServer  BY <1>1, Seen DEF Init
<1>3. NoneIn({"stopping", "exiting", "booting"})
  BY DEF Init, NoneIn
<1> QED BY <1>2, <1>3 DEF Init, OneAtATime, NoneIn, AtServer

\* As long as no stop fails or takes too long, there is one server at a time.
LEMMA CalmStep == TypeInv /\ CalmInv /\ [Next]_vars => CalmInv'
<1> SUFFICES ASSUME TypeInv, CalmInv, [Next]_vars, Calm' PROVE OneAtATime'
  BY DEF CalmInv
<1>0. Calm  BY FaultsGrow DEF Calm
<1>1. OneAtATime  BY <1>0 DEF CalmInv
<1>2. ServerTypeOK /\ server \in [Slots -> Statuses]  BY TypeFacts DEF ServerTypeOK
<1>3. /\ command \in CommandNames \cup {"none"} /\ line \in Nat /\ line >= 1
      /\ First(command) \in 1 .. 5
  BY TypeFacts
<1> DEFINE Kept == detached' = {} /\ OneServer' /\ NoneIn({"stopping", "exiting"})'
<1>a. line' \in Int
  <2>1. line' \in 1 .. Len(StepsOf(command)') + 1  BY TypeStep DEF TypeInv, TypeOK
  <2> QED BY <2>1
<1>4. ASSUME UNCHANGED <<server, detached>>
      PROVE  /\ Kept
             /\ NoneIn({"booting"}) => NoneIn({"booting"})'
             /\ NoServer => NoServer'
  BY <1>1, <1>4 DEF OneAtATime, OneServer, NoneIn, NoServer
<1>5. ASSUME UNCHANGED <<server, detached>>, todo = <<>>, todo' = <<>>,
             UNCHANGED command, line' > First(command) \/ NoServer
      PROVE  OneAtATime'
  <2>1. NoneIn({"booting"})'  BY <1>1, <1>4, <1>5 DEF OneAtATime, AtServer
  <2>2. First(command)' = First(command)  BY <1>5 DEF First
  <2>3. line' <= First(command) => NoServer'
    BY <1>3, <1>4, <1>5, <1>a
  <2> QED BY <1>4, <1>5, <2>1, <2>2, <2>3 DEF OneAtATime, AtServer
\* postgres.sh begins with what it has to do
<1>6. ASSUME UNCHANGED <<server, detached>>, todo = <<>>, todo' # <<>>,
             Head(todo') = "pg_ctl stop" \/ NoServer
      PROVE  OneAtATime'
  <2>1. NoneIn({"booting"})'  BY <1>1, <1>4, <1>6 DEF OneAtATime, AtServer
  <2> QED BY <1>4, <1>6, <2>1 DEF OneAtATime, AtServer
<1>7. ASSUME NEW c \in Commands, Begin(c)  PROVE OneAtATime'
  <2>1. NoneIn({"booting"})'
    BY <1>1, <1>4, <1>7 DEF OneAtATime, AtServer, Begin, Over, serverVars
  <2> QED BY <1>4, <1>7, <2>1 DEF OneAtATime, AtServer, Begin, Over, serverVars
<1>8. CASE PostgresSh
  <2>0. UNCHANGED <<server, detached, command>>
    BY <1>8 DEF PostgresSh, serverVars, OwnUnchanged
  <2>1. ASSUME todo = <<>>, SeesNothing  PROVE NoServer
    <3>1. NoneIn({"booting", "serving", "stopping"})
      BY <1>1, <1>2, <2>1, Seen DEF OneAtATime
    <3> QED BY <1>1, <1>2, <3>1 DEF OneAtATime, NoneIn, NoServer, Statuses
  <2>2. ASSUME NEW steps, steps \in {Stopping, restart_running}, todo = <<>>, DoneBy(steps)
        PROVE  OneAtATime'
    BY <1>6, <2>0, <2>2, Tails DEF DoneBy
  <2>3. ASSUME NEW steps, steps \in {Clearing, <<"launch", "wait">>}, todo = <<>>,
               SeesNothing, DoneBy(steps)
        PROVE  OneAtATime'
    BY <1>6, <2>0, <2>1, <2>3, Tails DEF DoneBy
  <2>4. ASSUME todo = <<>>, Done, SeesNothing  PROVE OneAtATime'
    BY <1>5, <2>0, <2>1, <2>4 DEF Done
  <2>5. ASSUME Done, At("start") \/ At("reset")  PROVE OneAtATime'
    <3>1. line >= First(command) /\ todo = <<>>
      <4>1. \/ line = 3 /\ command \in OnDbgen
            \/ line = 5 /\ command \in OnCache
            \/ line = 2 /\ command \in OnDbgen
        BY <1>3, <2>5, StepLines
      <4> QED BY <2>5, <4>1 DEF At, First, OnDbgen, OnCache
    <3>2. line' > First(command)  BY <1>3, <2>5, <3>1 DEF Done
    <3> QED BY <1>5, <2>0, <2>5, <3>1, <3>2 DEF Done
  <2> QED BY <1>8, <2>2, <2>3, <2>4, <2>5
          DEF PostgresSh, At, Stopping, Clearing
<1>9. CASE ServerStep
  <2>0. /\ todo # <<>> /\ todo' = Tail(todo) /\ line' = line /\ command' = command
        /\ First(command)' = First(command)
    BY <1>9 DEF ServerStep, AtServer, ServerDone, OwnUnchanged, First
  <2>1. CASE AtServer("pg_ctl stop") /\ PgCtlStop
    <3>1. NoneIn({"booting", "stopping", "exiting"})
      <4>1. ~AtServer("wait")  BY <2>1 DEF AtServer
      <4> QED BY <1>1, <4>1 DEF OneAtATime, NoneIn
    <3>2. NoServer' /\ detached' \subseteq detached
      <4>1. faults' \cap {"slow", "stop_fails"} = {}  BY DEF Calm
      <4> QED BY <1>1, <1>2, <2>1, <3>1, <4>1, StopWorks DEF OneAtATime
    <3> QED BY <1>1, <3>2 DEF OneAtATime, OneServer, NoneIn, NoServer
  <2>2. CASE AtServer("launch") /\ Launch
    <3>1. todo' = <<"wait">>  BY <2>0, <2>2, ServerLines, Tails
    <3>2. AtServer("wait")' /\ ~AtServer("launch")' /\ ~AtServer("mkdir")' /\ todo' # <<>>
      BY <3>1, Tails DEF AtServer
    <3>3. PICK s \in Slots : server' = [server EXCEPT ![s] = "booting"]
      BY <2>2 DEF Launch, With
    <3>4. NoServer  BY <1>1, <2>2 DEF OneAtATime
    <3>5. OneServer' /\ NoneIn({"stopping", "exiting"})' /\ detached' = {}
      BY <1>1, <1>2, <2>2, <3>3, <3>4
         DEF Launch, NoServer, OneServer, NoneIn, OneAtATime
    <3> QED BY <3>2, <3>5 DEF OneAtATime
  <2>3. CASE AtServer("mkdir") /\ PrepareDirectories
    <3>1. NoServer /\ detached = {}  BY <1>1, <2>3 DEF OneAtATime
    <3>2. Alive = {}  BY <1>2, <3>1, ListedOnes DEF NoServer
    <3>3. NoServer' /\ detached' = {}
      BY <2>3, <3>1, <3>2 DEF PrepareDirectories, NoServer
    <3> QED BY <3>3 DEF OneAtATime, OneServer, NoneIn, NoServer
  <2>4. CASE AtServer("wait") /\ Sleep
    <3>1. todo = <<"wait">> /\ todo' = <<>>  BY <2>0, <2>4, ServerLines, Tails
    <3>2. line > First(command)  BY <3>1, ServerLines, Tails
    <3>3. Listed \ With("serving") = {}
      BY <2>4 DEF Sleep, Failing, Calm
    <3>4. NoneIn({"booting"})  BY <1>2, <3>3, ListedOnes DEF NoneIn, With
    <3>5. UNCHANGED <<server, detached>>  BY <2>4 DEF Sleep
    <3>6. ~(line' <= First(command)')  BY <1>3, <2>0, <3>2
    <3> QED BY <1>4, <3>1, <3>4, <3>5, <3>6 DEF OneAtATime, AtServer
  <2> QED BY <1>9, <2>1, <2>2, <2>3, <2>4 DEF ServerStep
<1>10. CASE ShellStep
  <2>0. todo = <<>> /\ todo' = <<>> /\ line' = line + 1 /\ UNCHANGED command
    BY <1>10 DEF ShellStep, At, Done, OwnUnchanged
  <2>1. CASE At("rm") /\ RemoveDir
    <3>1. line = 3 /\ First(command) = 5
      <4>1. line = 3 /\ command \in OnCache  BY <1>3, <2>1, StepLines
      <4> QED BY <4>1 DEF First, OnCache, OnDbgen
    <3>2. NoServer /\ detached = {}  BY <1>1, <2>0, <3>1 DEF OneAtATime
    <3>3. Alive = {}  BY <1>2, <3>2, ListedOnes DEF NoServer
    <3>4. UNCHANGED <<server, detached>>  BY <2>1, <3>2, <3>3 DEF RemoveDir
    <3> QED BY <1>5, <2>0, <3>2, <3>4
  <2>2. CASE At("sleep") /\ Sleep
    <3>1. line > First(command) \/ (line = 2 /\ First(command) = 5)
      <4>1. line > First(command) \/ (line = 2 /\ command \in OnCache)
        BY <1>3, <2>2, StepLines
      <4> QED BY <4>1 DEF First, OnCache, OnDbgen
    <3>2. line' > First(command) \/ NoServer
      BY <1>1, <1>3, <2>0, <3>1 DEF OneAtATime
    <3> QED BY <1>5, <2>0, <2>2, <3>2 DEF Sleep
  <2> QED BY <1>10, <2>1, <2>2 DEF ShellStep
<1>11. CASE Unzip
  <2>1. line = 4 /\ First(command) = 5
    <3>1. line = 4 /\ command \in OnCache  BY <1>3, <1>11, StepLines DEF Unzip
    <3> QED BY <3>1 DEF First, OnCache, OnDbgen
  <2>2. NoServer  BY <1>1, <1>11, <2>1 DEF OneAtATime, Unzip, At
  <2> QED BY <1>5, <1>11, <2>2 DEF Unzip, At, Done, OwnUnchanged
<1>12. ASSUME NEW step \in {"drop", "create", "schema", "load", "check", "header", "query"},
              At(step), Done, UNCHANGED <<server, detached, command>>
       PROVE  OneAtATime'
  <2>1. line > First(command)
    <3>0. Behind \in Int  BY TypeFacts
    <3>1. \/ line >= 4 /\ command \in OnDbgen
          \/ line >= 8 /\ command \in OnCache
          \/ Behind >= -1
      BY <1>3, <1>12, <3>0, StepLines
    <3>2. CASE line >= 4 /\ command \in OnDbgen
      BY <1>3, <3>2 DEF First
    <3>3. CASE line >= 8 /\ command \in OnCache
      BY <1>3, <3>3 DEF First, OnCache, OnDbgen
    <3>4. CASE Behind >= -1
      BY <1>3, <3>4 DEF Behind, Base, First
    <3> QED BY <3>1, <3>2, <3>3, <3>4
  <2>2. line' > First(command)  BY <1>3, <1>12, <2>1 DEF Done
  <2> QED BY <1>5, <1>12, <2>2 DEF Done, At
<1>13. CASE Sql \/ CheckForRecovery \/ Header \/ Query
  BY <1>12, <1>13
     DEF Sql, Statement, CheckForRecovery, Header, Query, OwnUnchanged, serverVars
<1>14. CASE Environment /\ UNCHANGED driverVars
  <2>1. /\ \A s \in Slots : \/ server'[s] = server[s] \/ server'[s] = "none"
                            \/ server[s] = "booting" /\ server'[s] = "serving"
        /\ detached' \subseteq detached
    BY <1>2, <1>14, Surroundings
  <2>2. Kept /\ (NoneIn({"booting"}) => NoneIn({"booting"})') /\ (NoServer => NoServer')
    BY <1>1, <2>1 DEF OneAtATime, OneServer, NoneIn, NoServer
  <2>3. First(command)' = First(command)  BY <1>14 DEF driverVars, First
  <2> QED BY <1>1, <1>14, <2>2, <2>3 DEF driverVars, OneAtATime, AtServer
<1>15. CASE UNCHANGED vars
  <2>1. First(command)' = First(command)  BY <1>15 DEF vars, driverVars, First
  <2> QED BY <1>1, <1>4, <1>15, <2>1
          DEF vars, driverVars, serverVars, OneAtATime, AtServer
<1> QED BY <1>7, <1>8, <1>9, <1>10, <1>11, <1>13, <1>14, <1>15 DEF Next, Step

\* So it is throughout.
LEMMA CalmAlways == Spec => []CalmInv
<1> QED BY CalmInit, CalmStep, InitType, TypeAlways, PTL DEF Spec

\* A step that takes a directory from a living server needs a stop that failed or was slow.
LEMMA DirKept ==
  ASSUME TypeInv, CalmInv, [Next]_vars, ~(detached' \subseteq detached)
  PROVE  faults \cap {"stop_fails", "slow"} # {}
<1> SUFFICES ASSUME Calm PROVE detached' \subseteq detached
  BY DEF Calm
<1>1. OneAtATime  BY DEF CalmInv
<1>2. ServerTypeOK /\ command \in CommandNames \cup {"none"} /\ line \in Nat /\ line >= 1
  BY TypeFacts
<1>3. NoServer => Alive = {}  BY <1>2, ListedOnes DEF NoServer
<1>4. ASSUME NEW s, Gone(s)  PROVE detached' \subseteq detached
  BY <1>4 DEF Gone
<1>5. CASE ServerStep
  <2>1. CASE AtServer("mkdir") /\ PrepareDirectories
    BY <1>1, <1>3, <2>1 DEF OneAtATime, PrepareDirectories
  <2>2. CASE PgCtlStop
    BY <1>4, <2>2 DEF PgCtlStop, serverVars
  <2>3. CASE Launch \/ Sleep
    BY <2>3 DEF Launch, Sleep
  <2> QED BY <1>5, <2>1, <2>2, <2>3 DEF ServerStep
<1>6. CASE ShellStep
  <2>1. CASE At("rm") /\ RemoveDir
    <3>1. line = 3 /\ First(command) = 5 /\ todo = <<>>
      <4>1. line = 3 /\ command \in OnCache /\ todo = <<>>  BY <1>2, <2>1, StepLines
      <4> QED BY <4>1 DEF First, OnCache, OnDbgen
    <3>2. NoServer  BY <1>1, <3>1 DEF OneAtATime
    <3> QED BY <1>3, <2>1, <3>2 DEF RemoveDir
  <2>2. CASE Sleep
    BY <2>2 DEF Sleep
  <2> QED BY <1>6, <2>1, <2>2 DEF ShellStep
<1>7. CASE Environment
  BY <1>2, <1>7, Surroundings
<1>8. CASE Unzip \/ Sql \/ Query
  BY <1>8 DEF Unzip, Sql, Statement, Query
<1>9. CASE PostgresSh \/ CheckForRecovery \/ Header
  BY <1>9 DEF PostgresSh, CheckForRecovery, Header, serverVars
<1>10. CASE \E c \in Commands : Begin(c)
  BY <1>10 DEF Begin, serverVars
<1>11. CASE UNCHANGED vars
  BY <1>11 DEF vars, serverVars
<1> QED BY <1>5, <1>6, <1>7, <1>8, <1>9, <1>10, <1>11 DEF Next, Step

\* A data directory is deleted under a living server only if stopping a server has
\* failed before, or a server has been slower, to stop or to boot, than tpch.sh
\* waits for it.
THEOREM DirectoriesStay == Spec => DirNotPulledAway
<1>1. TypeInv /\ CalmInv /\ [Next]_vars
        => [~(detached' \subseteq detached) => faults \cap {"stop_fails", "slow"} # {}]_vars
  BY DirKept
<1> QED BY <1>1, TypeAlways, CalmAlways, PTL DEF Spec, DirNotPulledAway

-----------------------------------------------------------------------------
(* Where nothing fails, the rows are times of the queries.                    *)

\* the database, once the directory has been cleared
DbInv ==
  /\ command \in OnDbgen /\ ~AtServer("mkdir") =>
       /\ line \in 3 .. 5 => db = "none"
       /\ line = 6 => db = "created"
       /\ line = 7 => db = "schema"
       /\ line >= 8 => db = "loaded"
  /\ command \in OnCache /\ line >= 5 => db = "loaded"

\* a command that has started a server has one from then on
InOrder ==
  /\ todo = <<>> /\ line > First(command) => Serving
  /\ AtServer("wait") => ~NoServer
  /\ dir = "absent" => line = 4 /\ command \in OnCache
  /\ DbInv
  /\ prepared => \A r \in 1 .. Len(rows) : rows[r]
  /\ prepared /\ Behind >= 0 => db = "loaded"

Quiet == faults = {}
QuietInv == Quiet => InOrder

\* Nothing has failed at first, and there are no rows.
LEMMA QuietInit == Init => QuietInv
<1> SUFFICES ASSUME Init PROVE InOrder
  BY DEF QuietInv
<1>1. line = 1 /\ command = "none" /\ todo = <<>> /\ dir = "cluster" /\ prepared = FALSE
  BY DEF Init
<1>2. First(command) = 1  BY <1>1 DEF First, OnCache, OnDbgen
<1> QED BY <1>1, <1>2 DEF InOrder, DbInv, AtServer, OnDbgen, OnCache

\* Only the header is on its line.
LEMMA NotHeader ==
  ASSUME TypeInv, NEW step \in StepNames \ {"header"}, At(step)
  PROVE  Behind < -1 \/ Behind >= 0
<1>1. CASE step \in {"restart", "sleep", "query"}
  BY <1>1, TypeFacts, StepLines
<1>2. CASE step \in StepNames \ {"restart", "sleep", "header", "query"}
  <2>1. \/ line <= 7 /\ command \in OnDbgen
        \/ line <= 16 /\ command \in OnCache
    BY <1>2, TypeFacts, StepLines DEF StepNames
  <2> QED BY <2>1, TypeFacts DEF Behind, Base, OnDbgen, OnCache
<1> QED BY <1>1, <1>2

RowsOfQueries ==
  /\ prepared => \A r \in 1 .. Len(rows) : rows[r]
  /\ prepared /\ Behind >= 0 => db = "loaded"

ServerInOrder ==
  /\ todo = <<>> /\ line > First(command) => Serving
  /\ AtServer("wait") => ~NoServer
  /\ dir = "absent" => line = 4 /\ command \in OnCache

\* The parts of the order.
LEMMA InOrderParts == InOrder <=> ServerInOrder /\ DbInv /\ RowsOfQueries
BY DEF InOrder, ServerInOrder, RowsOfQueries

\* The rows stay those of a loaded database as long as it is kept.
LEMMA RowsKept ==
  ASSUME TypeInv, RowsOfQueries, UNCHANGED <<command, rows, prepared>>,
         \/ line' = line /\ db' = db
         \/ /\ line' = line + 1
            /\ \E step \in StepNames \ {"header", "query"} : At(step)
            /\ db' = db \/ line <= Base(command)
         \/ line' = line /\ line <= Base(command)
  PROVE  RowsOfQueries'
<1>1. Behind \in Int /\ line \in Nat /\ Base(command) \in {0, 7, 16}  BY TypeFacts
<1>2. Base(command)' = Base(command)  BY DEF Base
<1>3. CASE line' = line /\ db' = db
  <2>1. Behind' = Behind  BY <1>2, <1>3 DEF Behind
  <2> QED BY <1>3, <2>1 DEF RowsOfQueries
<1>4. CASE line' = line + 1 /\ \E step \in StepNames \ {"header", "query"} : At(step)
  <2>1. Behind' = Behind + 1  BY <1>1, <1>2, <1>4 DEF Behind
  <2>2. Behind < -1 \/ Behind >= 0  BY <1>4, NotHeader
  <2>3. Behind' >= 0 => Behind >= 0 /\ ~(line <= Base(command))
    BY <1>1, <2>1, <2>2 DEF Behind
  <2>4. db' = db \/ line <= Base(command) => RowsOfQueries'
    BY <2>3 DEF RowsOfQueries
  <2> QED BY <2>3, <2>4, <1>4, <1>3, <1>1 DEF RowsOfQueries
<1>5. CASE line' = line /\ line <= Base(command)
  <2>1. ~(Behind' >= 0)  BY <1>1, <1>2, <1>5 DEF Behind
  <2> QED BY <2>1 DEF RowsOfQueries
<1> QED BY <1>3, <1>4, <1>5

\* A step that is not one of the database finds it as the step before has left it.
LEMMA DbKept ==
  ASSUME TypeInv, DbInv, dir = "absent" => line = 4 /\ command \in OnCache,
         NEW step \in {"stop", "start", "restart", "sleep", "check", "header", "query"},
         At(step), line' = line + 1, UNCHANGED <<command, db>>
  PROVE  DbInv' /\ dir # "absent"
<1>0. command \in CommandNames \cup {"none"} /\ line \in Nat /\ line >= 1 /\ Behind \in Int
  BY TypeFacts
<1>1. ~AtServer("mkdir")  BY DEF At, AtServer
<1>2. CASE command \in OnDbgen
  <2>1. First(command) = 2 /\ Base(command) = 7  BY <1>2 DEF First, Base
  <2>2. line = 1 \/ line = 3 \/ line >= 8
    <3>1. CASE step \in {"stop", "start", "restart", "sleep"}
      BY <1>0, <1>2, <3>1, StepLines DEF OnDbgen, OnCache
    <3>2. CASE step \in {"header", "query"}
      <4>1. Behind >= -1  BY <1>0, <3>2, StepLines
      <4> QED BY <1>0, <2>1, <4>1 DEF Behind
    <3>3. CASE step = "check"
      BY <1>0, <1>2, <3>3, StepLines DEF OnDbgen, OnCache
    <3> QED BY <3>1, <3>2, <3>3
  <2>3. command \notin OnCache  BY <1>2 DEF OnDbgen, OnCache
  <2> QED BY <1>0, <1>1, <1>2, <2>2, <2>3 DEF DbInv
<1>3. CASE command \in OnCache
  <2>1. First(command) = 5 /\ Base(command) = 16 /\ command \notin OnDbgen
    BY <1>3 DEF First, Base, OnDbgen, OnCache
  <2>2. line \in 1 .. 2 \/ line >= 5
    <3>1. CASE step \in {"stop", "start", "restart", "sleep", "check"}
      BY <1>0, <2>1, <3>1, StepLines
    <3>2. CASE step \in {"header", "query"}
      <4>1. Behind >= -1  BY <1>0, <3>2, StepLines
      <4> QED BY <1>0, <2>1, <4>1 DEF Behind
    <3> QED BY <3>1, <3>2
  <2> QED BY <1>0, <1>3, <2>1, <2>2 DEF DbInv
<1>4. CASE command \notin OnDbgen \cup OnCache
  BY <1>4 DEF DbInv
<1> QED BY <1>2, <1>3, <1>4

\* As long as nothing fails, every step finds the servers and the database in order.
LEMMA QuietStep == TypeInv /\ CalmInv /\ QuietInv /\ [Next]_vars => QuietInv'
<1> SUFFICES ASSUME TypeInv, CalmInv, QuietInv, [Next]_vars, Quiet' PROVE InOrder'
  BY DEF QuietInv
<1>0. Quiet  BY FaultsGrow DEF Quiet
<1>1. /\ OneAtATime /\ ServerInOrder /\ DbInv /\ RowsOfQueries
      /\ ServerTypeOK /\ server \in [Slots -> Statuses]
  BY <1>0, InOrderParts, TypeFacts
     DEF CalmInv, Calm, Quiet, QuietInv, ServerTypeOK
<1>2. /\ command \in CommandNames \cup {"none"} /\ line \in Nat /\ line >= 1
      /\ First(command) \in 1 .. 5 /\ Behind \in Int /\ Base(command) \in {0, 7, 16}
  BY TypeFacts
<1>3. ASSUME NEW kind, Failing(kind)  PROVE FALSE
  BY <1>3 DEF Failing, Quiet
<1>4. ASSUME todo = <<>>, SeesRunning  PROVE Serving
  <2>1. ~NoServer  BY <1>1, <1>4, Seen DEF SeesRunning
  <2>2. NoneIn({"booting", "stopping", "exiting"})
    BY <1>1, <1>4 DEF OneAtATime, AtServer, NoneIn
  <2> QED BY <1>1, <2>1, <2>2 DEF NoServer, NoneIn, Serving, Statuses
<1>5. command' = command => First(command)' = First(command)
  BY DEF First
<1>6. UNCHANGED server => (Serving <=> Serving') /\ (NoServer <=> NoServer')
  BY DEF Serving, NoServer
\* a step of tpch.sh that leaves server and directory as they are
<1>7. ASSUME UNCHANGED <<server, dir, command>>, todo' = <<>>, dir # "absent",
             line' > First(command) => Serving
      PROVE  ServerInOrder'
  BY <1>5, <1>6, <1>7 DEF ServerInOrder, AtServer
<1>8. ASSUME NEW c \in Commands, Begin(c)  PROVE InOrder'
  <2>1. command' = c /\ line' = 1 /\ todo' = <<>> /\ c \in CommandNames
    BY <1>8, CommandsAssumption DEF Begin, Over
  <2>2. First(command)' >= 1 /\ Behind' = 1 - Base(c) - 4 /\ Base(c) \in Nat
    BY <2>1 DEF First, Behind, Base
  <2>3. ~(Behind' >= 0)  BY <2>2
  <2>4. dir # "absent"
    <3>1. ASSUME dir = "absent"  PROVE FALSE
      <4>1. line = 4 /\ command \in OnCache  BY <1>1, <3>1 DEF ServerInOrder
      <4>2. command \in CommandNames /\ Base(command) = 16
        BY <4>1 DEF Base, OnCache, OnDbgen, CommandNames
      <4>3. line > Size(command) /\ 16 <= Size(command) /\ Size(command) \in Nat
        BY <1>8, <4>2, Sizes DEF Begin, Over
      <4> QED BY <4>1, <4>3
    <3> QED BY <3>1
  <2>5. ServerInOrder'
    <3>1. First(command)' \in Nat  BY DEF First
    <3> QED BY <1>8, <2>1, <2>2, <2>4, <3>1 DEF Begin, serverVars, ServerInOrder, AtServer
  <2>6. DbInv'  BY <2>1 DEF DbInv
  <2>7. RowsOfQueries'  BY <1>1, <1>8, <2>3 DEF Begin, RowsOfQueries
  <2> QED BY <2>5, <2>6, <2>7, InOrderParts, PTL
<1>9. CASE PostgresSh
  <2>0. /\ UNCHANGED <<server, detached, dir, db, command, rows, prepared>>
        /\ line' = line + 1
        /\ \E step \in {"stop", "start", "reset", "restart"} : At(step)
        /\ todo = <<>>
    BY <1>9 DEF PostgresSh, serverVars, OwnUnchanged, At, Done, DoneBy
  <2>1. RowsOfQueries'
    <3>1. {"stop", "start", "reset", "restart"} \subseteq StepNames \ {"header", "query"}
      BY DEF StepNames
    <3> QED BY <1>1, <2>0, <3>1, RowsKept
  <2>2. dir # "absent"
    <3>1. line # 4 \/ command \notin OnCache
      BY <1>2, <2>0, StepLines DEF OnCache, OnDbgen, First
    <3> QED BY <1>1, <3>1 DEF ServerInOrder
  <2>3. ASSUME NEW steps, steps \in {Stopping, Clearing, <<"launch", "wait">>, restart_running},
               DoneBy(steps)
        PROVE  ServerInOrder'
    <3>1. todo' # <<>> /\ ~AtServer("wait")'  BY <2>3, Tails DEF DoneBy, AtServer
    <3> QED BY <2>0, <2>2, <3>1 DEF ServerInOrder
  <2>4. CASE At("reset")
    <3>1. line = 2 /\ command \in OnDbgen /\ First(command) = 2
      <4>1. line = 2 /\ command \in OnDbgen  BY <1>2, <2>4, StepLines
      <4> QED BY <4>1 DEF First
    <3>2. NoServer  BY <1>1, <2>0, <3>1 DEF OneAtATime
    <3>3. ~SeesRunning  BY <1>1, <3>2, Seen DEF SeesRunning
    <3>4. DoneBy(Clearing)
      BY <1>9, <2>4, <3>3 DEF PostgresSh, At, Clearing
    <3>5. AtServer("mkdir")'  BY <3>4, Tails DEF DoneBy, AtServer
    <3>6. command' \notin OnCache  BY <2>0, <3>1 DEF OnDbgen, OnCache
    <3>7. DbInv'  BY <3>5, <3>6 DEF DbInv
    <3>8. ServerInOrder'  BY <2>3, <3>4
    <3> QED BY <2>1, <3>7, <3>8, InOrderParts, PTL
  <2>5. CASE \E step \in {"stop", "start", "restart"} : At(step)
    <3>1. DbInv'  BY <1>1, <2>0, <2>5, DbKept DEF ServerInOrder
    <3>2. ServerInOrder'
      <4>1. CASE \E steps \in {Stopping, <<"launch", "wait">>, restart_running} : DoneBy(steps)
        BY <2>3, <4>1
      <4>2. CASE At("start") /\ SeesRunning /\ Done
        BY <1>4, <1>7, <2>0, <2>2, <4>2 DEF Done
      <4>3. CASE At("stop") /\ Done
        <5>1. line = 1 /\ First(command) \in {2, 5}
          <6>1. line = 1 /\ command \in OnDbgen \cup OnCache  BY <1>2, <4>3, StepLines
          <6> QED BY <6>1 DEF First
        <5>2. ~(line' > First(command))  BY <2>0, <5>1
        <5> QED BY <1>7, <2>0, <2>2, <4>3, <5>2 DEF Done
      <4> QED BY <1>9, <2>5, <4>1, <4>2, <4>3 DEF PostgresSh, At, Stopping
    <3> QED BY <2>1, <3>1, <3>2, InOrderParts, PTL
  <2> QED BY <2>0, <2>4, <2>5
<1>10. CASE ServerStep
  <2>0. /\ todo # <<>> /\ todo' = Tail(todo)
        /\ UNCHANGED <<line, command, rows, prepared>>
    BY <1>10 DEF ServerStep, AtServer, ServerDone, OwnUnchanged
  <2>1. CASE AtServer("pg_ctl stop") /\ PgCtlStop
    <3>1. NoneIn({"booting", "stopping", "exiting"})
      <4>1. ~AtServer("wait")  BY <2>1 DEF AtServer
      <4> QED BY <1>1, <4>1 DEF OneAtATime, NoneIn
    <3>2. dir' = dir /\ db' = db
      <4>1. faults' \cap {"slow", "stop_fails"} = {}  BY DEF Quiet
      <4> QED BY <1>1, <2>1, <3>1, <4>1, StopWorks DEF OneAtATime
    <3>3. RowsOfQueries'  BY <1>1, <2>0, <3>2, RowsKept
    <3>4. /\ ~AtServer("wait")' /\ ~AtServer("mkdir")' /\ ~AtServer("mkdir")
          /\ todo' = <<>> => ~(line' > First(command)')
      <4>1. CASE todo = Stopping
        <5>1. line = 2 /\ First(command) \in {2, 5}
          <6>1. line = 2 /\ command \in OnDbgen \cup OnCache
            BY <2>0, <4>1, ServerLines
          <6> QED BY <6>1 DEF First
        <5>2. todo' = <<>> /\ Head(todo) = "pg_ctl stop"  BY <2>0, <4>1, Tails
        <5>3. ~(line' > First(command)')  BY <1>5, <2>0, <5>1
        <5> QED BY <5>2, <5>3 DEF AtServer
      <4>2. CASE todo = restart_running
        BY <2>0, <4>2, Tails DEF AtServer
      <4> QED BY <2>1, <4>1, <4>2, ServerLines
    <3>5. ServerInOrder'  BY <1>1, <2>0, <3>2, <3>4 DEF ServerInOrder
    <3>6. DbInv'  BY <1>1, <2>0, <3>2, <3>4 DEF DbInv
    <3> QED BY <3>3, <3>5, <3>6, InOrderParts, PTL
  <2>2. CASE AtServer("launch") /\ Launch
    <3>1. UNCHANGED <<dir, db>>  BY <2>2 DEF Launch
    <3>2. todo' = <<"wait">> /\ ~AtServer("mkdir") /\ ~AtServer("mkdir")' /\ todo' # <<>>
      BY <2>0, <2>2, ServerLines, Tails DEF AtServer
    <3>3. ~NoServer'
      <4>1. PICK s \in Slots : server' = [server EXCEPT ![s] = "booting"]
        BY <2>2 DEF Launch, With
      <4> QED BY <1>1, <4>1 DEF NoServer
    <3>4. ServerInOrder'  BY <1>1, <2>0, <3>1, <3>2, <3>3 DEF ServerInOrder
    <3>5. DbInv'  BY <1>1, <2>0, <3>1, <3>2 DEF DbInv
    <3>6. RowsOfQueries'  BY <1>1, <2>0, <3>1, RowsKept
    <3> QED BY <3>4, <3>5, <3>6, InOrderParts, PTL
  <2>3. CASE AtServer("mkdir") /\ PrepareDirectories
    <3>1. dir' = "empty" /\ db' = "none"  BY <2>3 DEF PrepareDirectories
    <3>2. line = 3 /\ command \in OnDbgen /\ Base(command) = 7 /\ command \notin OnCache
      <4>1. line = 3 /\ command \in OnDbgen
        BY <2>3, ServerLines DEF TypeInv, TodoInv
      <4> QED BY <4>1 DEF Base, OnDbgen, OnCache
    <3>3. todo' # <<>> /\ ~AtServer("wait")'
      BY <2>0, <2>3, ServerLines, Tails DEF AtServer
    <3>4. ServerInOrder'  BY <3>1, <3>3 DEF ServerInOrder
    <3>5. DbInv'  BY <2>0, <3>1, <3>2 DEF DbInv
    <3>6. RowsOfQueries'  BY <1>1, <2>0, <3>2, RowsKept
    <3> QED BY <3>4, <3>5, <3>6, InOrderParts, PTL
  <2>4. CASE AtServer("wait") /\ Sleep
    <3>1. UNCHANGED <<server, dir, db>> /\ Listed \ With("serving") = {}
      BY <1>3, <2>4 DEF Sleep
    <3>2. Serving
      <4>1. ~NoServer  BY <1>1, <2>4 DEF ServerInOrder
      <4> QED BY <1>1, <3>1, <4>1, ListedOnes DEF NoServer, Serving, With
    <3>3. todo' = <<>> /\ ~AtServer("mkdir")
      BY <2>0, <2>4, ServerLines, Tails DEF AtServer
    <3>4. ServerInOrder'
      BY <1>1, <1>6, <2>0, <3>1, <3>2, <3>3 DEF ServerInOrder, AtServer
    <3>5. DbInv'  BY <1>1, <2>0, <3>1, <3>3 DEF DbInv
    <3>6. RowsOfQueries'  BY <1>1, <2>0, <3>1, RowsKept
    <3> QED BY <3>4, <3>5, <3>6, InOrderParts, PTL
  <2> QED BY <1>10, <2>1, <2>2, <2>3, <2>4 DEF ServerStep
<1>11. CASE ShellStep
  <2>0. /\ todo = <<>> /\ todo' = <<>> /\ line' = line + 1
        /\ UNCHANGED <<command, rows, prepared>>
    BY <1>11 DEF ShellStep, At, Done, OwnUnchanged
  <2>a. {"rm", "sleep"} \subseteq StepNames \ {"header", "query"}  BY DEF StepNames
  <2>1. CASE At("rm") /\ RemoveDir
    <3>1. line = 3 /\ command \in OnCache /\ command \notin OnDbgen
          /\ First(command) = 5 /\ Base(command) = 16
      <4>1. line = 3 /\ command \in OnCache  BY <1>2, <2>1, StepLines
      <4> QED BY <4>1 DEF First, Base, OnCache, OnDbgen
    <3>2. ServerInOrder'  BY <1>5, <2>0, <3>1 DEF ServerInOrder, AtServer
    <3>3. DbInv'  BY <2>0, <3>1 DEF DbInv
    <3>4. RowsOfQueries'  BY <1>1, <2>0, <2>1, <2>a, <3>1, RowsKept
    <3> QED BY <3>2, <3>3, <3>4, InOrderParts, PTL
  <2>2. CASE At("sleep") /\ Sleep
    <3>1. UNCHANGED <<server, dir, db>>  BY <2>2 DEF Sleep
    <3>2. DbInv' /\ dir # "absent"
      BY <1>1, <2>0, <2>2, <3>1, DbKept DEF ServerInOrder
    <3>3. line' > First(command) => Serving
      <4>1. line > First(command) \/ (line = 2 /\ command \in OnCache)
        BY <1>2, <2>2, StepLines
      <4>2. command \in OnCache => First(command) = 5  BY DEF First, OnCache, OnDbgen
      <4> QED BY <1>1, <2>0, <4>1, <4>2 DEF ServerInOrder
    <3>4. ServerInOrder'  BY <1>7, <2>0, <3>1, <3>2, <3>3
    <3>5. RowsOfQueries'  BY <1>1, <2>0, <2>2, <2>a, <3>1, RowsKept
    <3> QED BY <3>2, <3>4, <3>5, InOrderParts, PTL
  <2> QED BY <1>11, <2>1, <2>2 DEF ShellStep
<1>12. CASE Unzip
  <2>0. /\ todo = <<>> /\ todo' = <<>> /\ line' = line + 1 /\ At("unzip")
        /\ UNCHANGED <<server, command, rows, prepared>>
        /\ dir' = "cluster" /\ db' = "loaded"
    BY <1>12 DEF Unzip, At, Done, OwnUnchanged
  <2>1. line = 4 /\ command \in OnCache /\ command \notin OnDbgen
        /\ First(command) = 5 /\ Base(command) = 16
    <3>1. line = 4 /\ command \in OnCache  BY <1>2, <2>0, StepLines
    <3> QED BY <3>1 DEF First, Base, OnCache, OnDbgen
  <2>2. ServerInOrder'  BY <1>5, <2>0, <2>1 DEF ServerInOrder, AtServer
  <2>3. DbInv'  BY <2>0, <2>1 DEF DbInv
  <2>4. "unzip" \in StepNames \ {"header", "query"}  BY DEF StepNames
  <2>5. RowsOfQueries'  BY <1>1, <2>0, <2>1, <2>4, RowsKept
  <2> QED BY <2>2, <2>3, <2>5, InOrderParts, PTL
\* the server works throughout the statements on the database
<1>13. ASSUME NEW step \in {"drop", "create", "schema", "load"}, NEW before, NEW after,
              Statement(step, before, after),
              \/ step = "drop" /\ "none" \notin before
              \/ step = "create" /\ "none" \in before /\ after = "created"
              \/ step = "schema" /\ "created" \in before /\ after = "schema"
              \/ step = "load" /\ "schema" \in before /\ after = "loaded"
       PROVE  InOrder'
  <2>0. /\ todo = <<>> /\ todo' = <<>> /\ line' = line + 1 /\ At(step)
        /\ UNCHANGED <<server, dir, command, rows, prepared>>
        /\ db' = IF Works /\ db \in before THEN after ELSE db
    BY <1>3, <1>13 DEF Statement, At, Done, OwnUnchanged
  <2>1. /\ command \in OnDbgen
        /\ \/ step = "drop" /\ line = 4
           \/ step = "create" /\ line = 5
           \/ step = "schema" /\ line = 6
           \/ step = "load" /\ line = 7
    BY <1>2, <2>0, StepLines
  <2>2. command \notin OnCache /\ First(command) = 2 /\ Base(command) = 7
    BY <2>1 DEF First, Base, OnCache, OnDbgen
  <2>3. Serving  BY <1>1, <2>0, <2>1, <2>2 DEF ServerInOrder
  <2>4. Works  BY <1>1, <2>3 DEF OneAtATime, Serving, Works, With
  <2>5. dir # "absent"  BY <1>1, <2>2 DEF ServerInOrder
  <2>6. ServerInOrder'  BY <1>7, <2>0, <2>3, <2>5
  <2>7. ~AtServer("mkdir")  BY <2>0 DEF AtServer
  <2>8. \/ line = 4 /\ db' = "none"
        \/ line = 5 /\ db' = "created"
        \/ line = 6 /\ db' = "schema"
        \/ line = 7 /\ db' = "loaded"
    BY <1>1, <1>13, <2>0, <2>1, <2>4, <2>7 DEF DbInv
  <2>9. DbInv'  BY <2>0, <2>2, <2>8 DEF DbInv
  <2>10. RowsOfQueries'
    <3>1. step \in StepNames \ {"header", "query"}  BY DEF StepNames
    <3> QED BY <1>1, <2>0, <2>1, <2>2, <3>1, RowsKept
  <2> QED BY <2>6, <2>9, <2>10, InOrderParts, PTL
<1>14. CASE Sql
  <2>1. /\ "none" \notin {"created", "schema", "loaded"} /\ "none" \in {"none"}
        /\ "created" \in {"created"} /\ "schema" \in {"schema"}
    OBVIOUS
  <2> QED BY <1>13, <1>14, <2>1 DEF Sql
\* so it does when rows are written
<1>15. ASSUME NEW step \in {"check", "header", "query"}, At(step), line' = line + 1,
              UNCHANGED <<server, dir, db, command, todo>>
       PROVE  ServerInOrder' /\ DbInv' /\ Serving
  <2>1. DbInv' /\ dir # "absent"  BY <1>1, <1>15, DbKept DEF ServerInOrder
  <2>2. line > First(command) /\ todo = <<>>
    <3>1. \/ line >= 8 /\ command \in OnCache
          \/ Behind >= -1
      BY <1>2, <1>15, StepLines
    <3>2. CASE line >= 8 /\ command \in OnCache
      BY <1>2, <1>15, <3>2 DEF First, OnCache, OnDbgen, At
    <3>3. CASE Behind >= -1
      BY <1>2, <1>15, <3>3 DEF Behind, Base, First, At
    <3> QED BY <3>1, <3>2, <3>3
  <2>3. Serving  BY <1>1, <2>2 DEF ServerInOrder
  <2>4. ServerInOrder'  BY <1>7, <1>15, <2>1, <2>2, <2>3
  <2> QED BY <2>1, <2>3, <2>4
<1>16. CASE CheckForRecovery
  <2>0. /\ At("check") /\ line' = line + 1
        /\ UNCHANGED <<server, dir, db, command, todo, rows, prepared>>
    BY <1>16 DEF CheckForRecovery, Done, serverVars, OwnUnchanged
  <2>1. "check" \in StepNames \ {"header", "query"}  BY DEF StepNames
  <2>2. RowsOfQueries'  BY <1>1, <2>0, <2>1, RowsKept
  <2>3. ServerInOrder' /\ DbInv'  BY <1>15, <2>0
  <2> QED BY <2>2, <2>3, InOrderParts, PTL
<1>17. CASE Header
  <2>0. /\ At("header") /\ line' = line + 1 /\ rows' = <<>>
        /\ UNCHANGED <<server, dir, db, command, todo>>
        /\ prepared' = (command # "run-quick" \/ db = "loaded")
    BY <1>17 DEF Header, Done, serverVars
  <2>1. Behind = -1 /\ command \in Benchmarks  BY <1>2, <2>0, StepLines
  <2>2. command # "run-quick" => db = "loaded"
    <3>1. CASE command = "run"
      <4>1. line >= 8 /\ command \in OnDbgen  BY <1>2, <2>1, <3>1 DEF Behind, Base, OnDbgen
      <4>2. ~AtServer("mkdir")  BY <2>0 DEF At, AtServer
      <4> QED BY <1>1, <4>1, <4>2 DEF DbInv
    <3>2. CASE command = "run-from-cache"
      <4>1. line >= 5 /\ command \in OnCache
        BY <1>2, <2>1, <3>2 DEF Behind, Base, OnCache, OnDbgen
      <4> QED BY <1>1, <4>1 DEF DbInv
    <3> QED BY <2>1, <3>1, <3>2 DEF Benchmarks
  <2>3. RowsOfQueries'
    <3>1. prepared' => db' = "loaded"  BY <2>0, <2>2, Zenon
    <3>2. \A r \in 1 .. Len(rows') : rows'[r]  BY <2>0
    <3> QED BY <3>1, <3>2 DEF RowsOfQueries
  <2>4. ServerInOrder' /\ DbInv'  BY <1>15, <2>0
  <2> QED BY <2>3, <2>4, InOrderParts, PTL
<1>18. CASE Query
  <2>0. /\ At("query") /\ line' = line + 1 /\ rows' = Append(rows, Works /\ db = "loaded")
        /\ UNCHANGED <<server, dir, db, command, todo, prepared>>
    BY <1>3, <1>18 DEF Query, Done
  <2>1. Behind >= 0  BY <1>2, <2>0, StepLines
  <2>2. ServerInOrder' /\ DbInv' /\ Serving  BY <1>15, <2>0
  <2>3. Works  BY <1>1, <2>2 DEF OneAtATime, Serving, Works, With
  <2>4. rows \in Seq(BOOLEAN)  BY TypeFacts
  <2>5. ASSUME prepared  PROVE db = "loaded" /\ \A r \in 1 .. Len(rows') : rows'[r]
    <3>1. db = "loaded" /\ rows' = Append(rows, TRUE)
      BY <1>1, <2>0, <2>1, <2>3, <2>5 DEF RowsOfQueries
    <3>2. \A r \in 1 .. Len(rows) : rows[r]  BY <1>1, <2>5 DEF RowsOfQueries
    <3> QED BY <2>4, <3>1, <3>2
  <2>6. RowsOfQueries'  BY <2>0, <2>5 DEF RowsOfQueries
  <2> QED BY <2>2, <2>6, InOrderParts, PTL
<1>19. CASE Environment /\ UNCHANGED driverVars
  <2>0. UNCHANGED <<line, todo, command, rows, prepared>>  BY <1>19 DEF driverVars
  <2>1. db' = db /\ dir' \in {dir, "cluster"}  BY <1>1, <1>19, Surroundings
  <2>2. Serving => Serving'
    <3>1. \A s \in Slots : server[s] = "serving" => server'[s] = "serving"
      BY <1>1, <1>19, Surroundings DEF OneAtATime, Quiet
    <3> QED BY <3>1 DEF Serving
  <2>3. AtServer("wait") => ~NoServer'
    <3>1. SUFFICES ASSUME AtServer("wait")  PROVE ~NoServer'
      OBVIOUS
    <3>2. PICK s \in Slots : server[s] # "none"
      BY <1>1, <3>1 DEF ServerInOrder, NoServer
    <3>3. dir # "absent"
      <4>1. todo = <<"wait">> /\ todo # <<>> /\ todo # Stopping
        BY <3>1, ServerLines, Tails
      <4>2. line > First(command)  BY <4>1, ServerLines
      <4>3. command \in OnCache => First(command) = 5  BY DEF First, OnCache, OnDbgen
      <4> QED BY <1>1, <1>2, <4>2, <4>3 DEF ServerInOrder
    <3>4. \A t \in Slots \ {s} : server[t] = "none"
      BY <1>1, <3>2 DEF OneAtATime, OneServer
    <3>5. server[s] \in {"booting", "serving"}
      BY <1>1, <3>2 DEF OneAtATime, NoneIn, Statuses
    <3>6. server'[s] \in {"booting", "serving"}
      BY <1>1, <1>19, <3>3, <3>4, <3>5, Surroundings DEF OneAtATime, Quiet
    <3> QED BY <3>6 DEF NoServer
  <2>4. ServerInOrder'
    BY <1>1, <1>5, <2>0, <2>1, <2>2, <2>3 DEF ServerInOrder, AtServer
  <2>5. DbInv'  BY <1>1, <2>0, <2>1 DEF DbInv, AtServer
  <2>6. RowsOfQueries'  BY <1>1, <2>0, <2>1, RowsKept
  <2> QED BY <2>4, <2>5, <2>6, InOrderParts, PTL
<1>20. CASE UNCHANGED vars
  <2>0. UNCHANGED <<server, dir, db, line, todo, command, rows, prepared>>
    BY <1>20 DEF vars, driverVars, serverVars
  <2>1. ServerInOrder'  BY <1>1, <1>5, <1>6, <2>0 DEF ServerInOrder, AtServer
  <2>2. DbInv'  BY <1>1, <2>0 DEF DbInv, AtServer
  <2>3. RowsOfQueries'  BY <1>1, <2>0, RowsKept
  <2> QED BY <2>1, <2>2, <2>3, InOrderParts, PTL
<1> QED
  BY <1>8, <1>9, <1>10, <1>11, <1>12, <1>14, <1>16, <1>17, <1>18, <1>19, <1>20
     DEF Next, Step

\* If no step has failed, every row of a benchmark on a loaded database times a
\* query that a server has executed on it.
THEOREM RowsReal == Spec => []RowsAreReal
<1>1. Spec => []QuietInv
  BY QuietInit, QuietStep, TypeAlways, CalmAlways, PTL DEF Spec
<1>2. QuietInv => RowsAreReal
  BY DEF QuietInv, Quiet, InOrder, RowsAreReal
<1> QED BY <1>1, <1>2, PTL

-----------------------------------------------------------------------------
(* The preparation from a copy leaves a server that works.                    *)

Steady ==
  command = "prepare-from-cache" /\ settled /\ faults \subseteq {"slow", "boot_fails"}

\* nothing lives while the directory is deleted and filled again, for postgres.sh
\* has stopped the one server there was; what lives later has found the copy
Prepares ==
  /\ detached = {} /\ NoneIn({"stopping"})
  /\ line = 1 \/ todo = Stopping => OneServer /\ NoneIn({"booting", "exiting"})
  /\ todo = <<>> /\ line \in 2 .. 4 => NoneIn({"booting", "serving"})
  /\ line >= 5 => dir = "cluster" /\ db = "loaded"
  /\ line = 17 => todo = <<>> /\ Serving

SettledInv == Steady => Prepares

\* The preparation ends with a look at the server.
LEMMA LastStep ==
  ASSUME command = "prepare-from-cache"
  PROVE  Len(StepsOf(command)) = 16 /\ (line = 16 => StepsOf(command)[line] = "check")
<1>1. command \in OnCache /\ Base(command) = 16
  BY DEF OnCache, OnDbgen, Base
<1>2. StepsOf(command) = prepare_from_data  BY DEF StepsOf
<1>3. Len(prepare_from_data) = 16 /\ Begins(command, prepare_from_data)
  BY <1>1, CacheSteps
<1>4. Table(command, 16) = "check"
  BY <1>1 DEF Table, CacheStep, OnDbgen, OnCache
<1> QED BY <1>2, <1>3, <1>4 DEF Begins

\* A stop that does not fail stops the one server there is, or finds none.
LEMMA StopStops ==
  ASSUME ServerTypeOK, detached = {}, NoneIn({"stopping"}), PgCtlStop, "stop_fails" \notin faults'
  PROVE  /\ detached' = {} /\ NoneIn({"stopping"})' /\ UNCHANGED <<dir, db>>
         /\ OneServer /\ NoneIn({"booting", "exiting"}) => NoneIn({"booting", "serving"})'
<1>0. server \in [Slots -> Statuses]  BY DEF ServerTypeOK
<1>1. CASE UNCHANGED serverVars
             /\ (Cardinality(Listed) # 1 \/ With("booting") \cup With("exiting") # {})
  <2>1. OneServer /\ NoneIn({"booting", "exiting"}) => NoServer
    BY <1>1, Seen DEF NoneIn, With
  <2> QED BY <1>1, <2>1 DEF serverVars, NoneIn, NoServer
<1>2. ASSUME NEW s \in Slots, server[s] # "none", NEW status \in {"none", "exiting"},
             server' = [server EXCEPT ![s] = status]
      PROVE  /\ NoneIn({"stopping"})'
             /\ OneServer => NoneIn({"booting", "serving"})'
  BY <1>0, <1>2 DEF NoneIn, OneServer
<1>3. \A s \in Alive : s \in Slots /\ server[s] # "none"  BY ListedOnes
<1>4. CASE \E s \in Alive : NoFailure /\ Gone(s)
  BY <1>2, <1>3, <1>4 DEF Gone
<1>5. CASE \E s \in Alive : /\ server' = [server EXCEPT ![s] = "exiting"]
                            /\ UNCHANGED <<detached, dir, db>>
  BY <1>2, <1>3, <1>5
<1>6. CASE Failing("stop_fails")
  BY <1>6 DEF Failing
<1> QED BY <1>1, <1>4, <1>5, <1>6 DEF PgCtlStop

\* No command has begun at first.
LEMMA SettledInit == Init => SettledInv
BY DEF Init, SettledInv, Steady

\* Every step of prepare-from-cache leaves what the rest of it counts on.
LEMMA SettledStep == TypeInv /\ SettledInv /\ [Next]_vars => SettledInv'
<1> SUFFICES ASSUME TypeInv, SettledInv, [Next]_vars, Steady' PROVE Prepares'
  BY DEF SettledInv
<1>1. ServerTypeOK /\ server \in [Slots -> Statuses]  BY TypeFacts DEF ServerTypeOK
<1>2. /\ command \in CommandNames \cup {"none"} /\ line \in Nat /\ line >= 1
  BY TypeFacts
<1>3. ASSUME NEW kind, Failing(kind)  PROVE kind \in {"slow", "boot_fails"}
  BY <1>3 DEF Failing, Steady
<1>a. ASSUME UNCHANGED server
      PROVE  /\ NoneIn({"stopping"})' = NoneIn({"stopping"})
             /\ NoneIn({"booting", "exiting"})' = NoneIn({"booting", "exiting"})
             /\ NoneIn({"booting", "serving"})' = NoneIn({"booting", "serving"})
             /\ OneServer' = OneServer /\ Serving' = Serving
  BY <1>a DEF NoneIn, OneServer, Serving
<1>4. ASSUME NEW c \in Commands, Begin(c)  PROVE Prepares'
  <2>1. line' = 1 /\ todo' = <<>> /\ UNCHANGED <<server, detached, dir, db>> /\ Settled
    BY <1>4 DEF Begin, Over, serverVars, Steady
  <2>2. OneServer /\ detached = {}  BY <1>1, <2>1, Seen DEF Settled
  <2>3. NoneIn({"stopping"}) /\ NoneIn({"booting", "exiting"})
    BY <1>1, <2>1, ListedOnes DEF Settled, NoneIn, With
  <2> QED BY <1>a, <2>1, <2>2, <2>3 DEF Prepares
\* from here on the command goes on
<1>5. SUFFICES ASSUME UNCHANGED <<command, settled>>  PROVE Prepares'
  <2>1. (\E c \in Commands : Begin(c)) \/ UNCHANGED <<command, settled>>
    BY DEF Next, Step, PostgresSh, ServerStep, ShellStep, Unzip, Sql, Statement,
           CheckForRecovery, Header, Query, OwnUnchanged, vars, driverVars
  <2> QED BY <1>4, <1>5, <2>1
<1>6. command = "prepare-from-cache" /\ Prepares
  BY <1>5, FaultsGrow DEF Steady, SettledInv
<1>7. /\ command \in OnCache /\ command \notin OnDbgen /\ command \notin Benchmarks
      /\ First(command) = 5 /\ line <= 17
  <2>1. line \in 1 .. Len(StepsOf(command)) + 1  BY DEF TypeInv, TypeOK
  <2>0. Len(StepsOf(command)) = 16  BY <1>6, LastStep
  <2>2. line <= 17  BY <2>0, <2>1
  <2>3. command \in OnCache /\ command \notin OnDbgen /\ command \notin Benchmarks
    BY <1>6 DEF OnCache, OnDbgen, Benchmarks
  <2> QED BY <2>2, <2>3 DEF First
<1>8. ASSUME NEW step, At(step)
      PROVE  /\ line <= 16 /\ (line = 16 => step = "check") /\ todo = <<>>
             /\ step \notin {"reset", "drop", "create", "schema", "load", "header", "query"}
  BY <1>2, <1>6, <1>7, <1>8, LastStep, StepLines DEF At
<1>9. CASE PostgresSh
  <2>0. UNCHANGED <<server, detached, dir, db>> /\ line' = line + 1 /\ todo = <<>>
    BY <1>9 DEF PostgresSh, serverVars, At, Done, DoneBy
  <2>1. CASE At("stop")
    <3>1. line = 1  BY <1>2, <2>1, StepLines
    <3>2. CASE SeesNothing /\ Done
      <4>1. NoneIn({"booting", "serving"})
        BY <1>1, <1>6, <3>1, <3>2, Seen DEF Prepares, NoneIn
      <4>2. todo' = <<>> /\ line' = 2  BY <2>0, <3>1, <3>2 DEF Done
      <4>3. todo' # Stopping  BY <4>2, Tails
      <4> QED BY <1>6, <1>a, <2>0, <4>1, <4>2, <4>3 DEF Prepares
    <3>3. CASE DoneBy(Stopping)
      <4>1. todo' = Stopping /\ line' = 2  BY <2>0, <3>1, <3>3 DEF DoneBy
      <4>2. todo' # <<>>  BY <4>1, Tails
      <4> QED BY <1>6, <1>a, <2>0, <3>1, <4>1, <4>2 DEF Prepares
    <3> QED BY <1>9, <2>1, <3>2, <3>3 DEF PostgresSh, At, Stopping
  <2>2. CASE At("start") \/ At("restart")
    <3>1. line >= 5 /\ line < 16
      BY <1>2, <1>7, <1>8, <2>2, StepLines
    <3>2. todo' # Stopping
      BY <1>9, <2>0, <2>2, Tails DEF PostgresSh, At, Done, DoneBy
    <3> QED BY <1>2, <1>6, <1>a, <2>0, <3>1, <3>2 DEF Prepares
  <2> QED BY <1>8, <1>9, <2>1, <2>2 DEF PostgresSh
<1>10. CASE ServerStep
  <2>0. todo # <<>> /\ todo' = Tail(todo) /\ line' = line
    BY <1>10 DEF ServerStep, AtServer, ServerDone
  <2>1. line # 17  BY <1>6, <2>0 DEF Prepares
  <2>2. CASE AtServer("pg_ctl stop") /\ PgCtlStop
    <3>1. /\ detached' = {} /\ NoneIn({"stopping"})' /\ UNCHANGED <<dir, db>>
          /\ OneServer /\ NoneIn({"booting", "exiting"}) => NoneIn({"booting", "serving"})'
      BY <1>1, <1>6, <2>2, StopStops DEF Prepares, Steady
    <3>2. CASE todo = Stopping
      <4>1. line = 2 /\ todo' = <<>> /\ todo' # Stopping
        BY <2>0, <3>2, ServerLines, Tails
      <4>2. NoneIn({"booting", "serving"})'  BY <1>6, <3>1, <3>2 DEF Prepares
      <4> QED BY <2>0, <3>1, <4>1, <4>2 DEF Prepares
    <3>3. CASE todo = restart_running
      <4>1. line > 5 /\ todo' # <<>> /\ todo' # Stopping
        BY <1>7, <2>0, <3>3, ServerLines, Tails
      <4> QED BY <1>2, <1>6, <2>0, <2>1, <3>1, <4>1 DEF Prepares
    <3> QED BY <2>2, <3>2, <3>3, ServerLines
  <2>3. CASE AtServer("launch") /\ Launch
    <3>1. line > 5 /\ todo' = <<"wait">> /\ todo' # <<>> /\ todo' # Stopping
      BY <1>7, <2>0, <2>3, ServerLines, Tails
    <3>2. UNCHANGED <<detached, dir, db>>  BY <2>3 DEF Launch
    <3>3. NoneIn({"stopping"})'
      <4>1. PICK s \in Slots : server' = [server EXCEPT ![s] = "booting"]
        BY <2>3 DEF Launch, With
      <4> QED BY <1>1, <1>6, <4>1 DEF Prepares, NoneIn
    <3> QED BY <1>2, <1>6, <2>0, <2>1, <3>1, <3>2, <3>3 DEF Prepares
  <2>4. CASE AtServer("mkdir")
    BY <1>7, <2>4, ServerLines DEF TypeInv, TodoInv
  <2>5. CASE AtServer("wait") /\ Sleep
    <3>1. line > 5 /\ todo' = <<>> /\ todo' # Stopping
      BY <1>7, <2>0, <2>5, ServerLines, Tails
    <3>2. UNCHANGED <<server, detached, dir, db>>  BY <2>5 DEF Sleep
    <3> QED BY <1>2, <1>6, <1>a, <2>0, <2>1, <3>1, <3>2 DEF Prepares
  <2> QED BY <1>10, <2>2, <2>3, <2>4, <2>5 DEF ServerStep
<1>11. CASE ShellStep
  <2>0. todo = <<>> /\ todo' = <<>> /\ todo' # Stopping /\ line' = line + 1
    BY <1>11, Tails DEF ShellStep, At, Done
  <2>1. CASE At("rm") /\ RemoveDir
    <3>1. line = 3  BY <1>2, <2>1, StepLines
    <3>2. NoneIn({"booting", "serving"}) /\ NoneIn({"stopping"}) /\ detached = {}
      BY <1>6, <2>0, <3>1 DEF Prepares
    <3>3. Alive = {}  BY <1>1, <3>2, ListedOnes DEF NoneIn
    <3>4. UNCHANGED <<server, detached>>  BY <2>1, <3>2, <3>3 DEF RemoveDir
    <3> QED BY <1>a, <2>0, <3>1, <3>2, <3>4 DEF Prepares
  <2>2. CASE At("sleep") /\ Sleep
    <3>1. line = 2 \/ (line > 5 /\ line < 16)  BY <1>2, <1>7, <1>8, <2>2, StepLines
    <3>2. UNCHANGED <<server, detached, dir, db>>  BY <2>2 DEF Sleep
    <3> QED BY <1>2, <1>6, <1>a, <2>0, <3>1, <3>2 DEF Prepares
  <2> QED BY <1>11, <2>1, <2>2 DEF ShellStep
<1>12. CASE Unzip
  <2>0. /\ todo' = <<>> /\ todo' # Stopping /\ line' = line + 1 /\ line = 4
        /\ UNCHANGED <<server, detached>> /\ dir' = "cluster" /\ db' = "loaded"
    BY <1>2, <1>12, StepLines, Tails DEF Unzip, At, Done
  <2> QED BY <1>6, <1>a, <2>0 DEF Prepares
<1>13. CASE CheckForRecovery
  <2>0. /\ At("check") /\ todo' = <<>> /\ todo' # Stopping /\ line' = line + 1
        /\ UNCHANGED <<server, detached, dir, db>> /\ Serving
    BY <1>13, Tails
       DEF CheckForRecovery, Done, At, serverVars, Answers, With, Serving
  <2>1. line >= 8  BY <1>2, <2>0, StepLines
  <2> QED BY <1>2, <1>6, <1>a, <2>0, <2>1 DEF Prepares
<1>14. CASE Sql \/ Header \/ Query
  BY <1>8, <1>14 DEF Sql, Statement, Header, Query
<1>15. CASE Environment /\ UNCHANGED driverVars
  <2>0. UNCHANGED <<line, todo>>  BY <1>15 DEF driverVars
  <2>1. /\ \A s \in Slots : \/ server'[s] = server[s] \/ server'[s] = "none"
                            \/ server[s] = "booting" /\ server'[s] = "serving"
        /\ detached' = {} /\ db' = db /\ dir' \in {dir, "cluster"}
    BY <1>1, <1>6, <1>15, Surroundings DEF Prepares
  <2>2. NoneIn({"stopping"}) => NoneIn({"stopping"})'
    BY <2>1 DEF NoneIn
  <2>3. NoneIn({"booting", "exiting"}) => NoneIn({"booting", "exiting"})'
    BY <2>1 DEF NoneIn
  <2>4. NoneIn({"booting", "serving"}) => NoneIn({"booting", "serving"})'
    BY <2>1 DEF NoneIn
  <2>5. OneServer => OneServer'  BY <2>1 DEF OneServer
  <2>6. Serving => Serving'
    <3>1. \A s \in Slots : server[s] = "serving" => server'[s] = "serving"
      BY <1>1, <1>6, <1>15, Surroundings DEF Prepares, Steady
    <3> QED BY <3>1 DEF Serving
  <2> QED BY <1>6, <2>0, <2>1, <2>2, <2>3, <2>4, <2>5, <2>6 DEF Prepares
<1>16. CASE UNCHANGED vars
  BY <1>6, <1>a, <1>16 DEF vars, driverVars, serverVars, Prepares
<1>17. CASE \E c \in Commands : Begin(c)
  BY <1>4, <1>17
<1> QED BY <1>9, <1>10, <1>11, <1>12, <1>13, <1>14, <1>15, <1>16, <1>17 DEF Next, Step

\* When the preparation from a copy of the data ends, a server works on it, however
\* long servers have taken to boot and to stop, and whichever of them did not boot,
\* if no server was on its way when the command began.
THEOREM PreparedServes == Spec => []PreparedIsServing
<1>1. Spec => []SettledInv
  BY SettledInit, SettledStep, TypeAlways, PTL DEF Spec
<1>2. ASSUME TypeInv, SettledInv, Steady, Over  PROVE Works /\ db = "loaded"
  <2>1. Prepares /\ command = "prepare-from-cache"  BY <1>2 DEF SettledInv, Steady
  <2>2. line = 17
    <3>1. line \in 1 .. Len(StepsOf(command)) + 1  BY <1>2 DEF TypeInv, TypeOK
    <3>2. Len(StepsOf(command)) = 16  BY <2>1, LastStep
    <3> QED BY <1>2, <3>1, <3>2 DEF Over
  <2> QED BY <2>1, <2>2 DEF Prepares, Serving, Works, With
<1>3. TypeInv /\ SettledInv => PreparedIsServing
  BY <1>2 DEF Steady, PreparedIsServing
<1> QED BY <1>1, <1>3, TypeAlways, PTL

=============================================================================
