---------------------------- MODULE ProjectProofs ---------------------------
(***************************************************************************)
(* For any number of commands, setups and syncs: the trend file is always one *)
(* that loads and keeps every run that ended well; setups that do not overlap  *)
(* lose no provider; a sync publishes what it has fetched itself and applies   *)
(* nothing unreviewed without an approval; a review is merged and judged as it  *)
(* was written.                                                                *)
(***************************************************************************)
EXTENDS MCProject, TLAPS

-----------------------------------------------------------------------------
(***************************************************************************)
(* The trend history.                                                        *)
(***************************************************************************)
(* What the limit and the oldest runs of a history are.                      *)

\* Between Load and the end of the command the file did load, and a history
\* that was loaded never comes apart again.  What is compared is the latest
\* run of what was loaded; what is about to be renamed is what was loaded and
\* this run, trimmed.
StagesAgree ==
  \A p \in Processes :
    /\ Len(base[p]) <= TrendLimit
    /\ pc[p] \in {"loaded", "created", "written"} =>
         file # Garbage /\ previous[p] = LatestRun(base[p])
    /\ pc[p] = "written" => temp[p] = AppendRun(base[p], p)

\* A file that holds a history holds a run, and only commands that ended well
\* appended one.  The first makes the latest run of a loaded history a run of
\* the file; the second keeps what they were compared with as it was.
RunsAreThere ==
  /\ file \in {Absent, Garbage} \/ Len(file) > 0
  /\ \A n \in 1 .. Len(appended) : pc[appended[n]] = "done"

HistoryInv == TypeOK /\ StagesAgree /\ RunsAreThere /\ SerialHistoryIsExact

-----------------------------------------------------------------------------
(* The limit, and the ends of sequences.                                     *)

\* The limit is positive: what is omitted is 30.
LEMMA LimitIsPositive == TrendLimit \in Nat /\ TrendLimit > 0
BY TrendAssumption DEF TrendLimit, DefaultTrendLimit

\* Beginnings that agree in each position are equal.
LEMMA BeginningsAgree ==
  ASSUME NEW S, NEW x \in Seq(S), NEW y \in Seq(S), NEW k \in Nat,
         k <= Len(x), k <= Len(y), \A i \in 1 .. k : x[i] = y[i]
  PROVE  SubSeq(x, 1, k) = SubSeq(y, 1, k)
<1>1. SubSeq(x, 1, k) = [i \in 1 .. k |-> x[i]]
  OBVIOUS
<1>2. SubSeq(y, 1, k) = [i \in 1 .. k |-> y[i]]
  OBVIOUS
<1> QED BY <1>1, <1>2

\* A suffix, position by position.
LEMMA SuffixByPosition ==
  ASSUME NEW S, NEW s \in Seq(S), NEW t \in Seq(S)
  PROVE  IsSuffix(s, t) <=>
           Len(s) <= Len(t) /\ \A i \in 1 .. Len(s) : s[i] = t[Len(t) - Len(s) + i]
<1> DEFINE m == Len(s)
<1> DEFINE n == Len(t)
<1>1. m \in Nat /\ n \in Nat
  OBVIOUS
<1>2. /\ Reverse(s) \in Seq(S) /\ Len(Reverse(s)) = m
      /\ \A i \in 1 .. m : Reverse(s)[i] = s[m - i + 1]
  BY DEF Reverse
<1>3. /\ Reverse(t) \in Seq(S) /\ Len(Reverse(t)) = n
      /\ \A i \in 1 .. n : Reverse(t)[i] = t[n - i + 1]
  BY DEF Reverse
<1>4. ASSUME IsSuffix(s, t)
      PROVE  m <= n /\ \A i \in 1 .. m : s[i] = t[n - m + i]
  <2>1. m <= n /\ SubSeq(Reverse(s), 1, m) = SubSeq(Reverse(t), 1, m)
    BY <1>2, <1>3, <1>4 DEF IsSuffix, IsPrefix
  <2>2. ASSUME NEW i \in 1 .. m PROVE s[i] = t[n - m + i]
    <3>1. m - i + 1 \in 1 .. m
      BY <1>1
    <3>2. Reverse(s)[m - i + 1] = SubSeq(Reverse(s), 1, m)[m - i + 1]
      BY <1>1, <1>2, <3>1
    <3>3. Reverse(t)[m - i + 1] = SubSeq(Reverse(t), 1, m)[m - i + 1]
      BY <1>1, <1>3, <2>1, <3>1
    <3>4. m - (m - i + 1) + 1 = i /\ n - (m - i + 1) + 1 = n - m + i
      BY <1>1
    <3>5. Reverse(s)[m - i + 1] = s[i]
      BY <1>2, <3>1, <3>4
    <3>6. m - i + 1 \in 1 .. n
      BY <1>1, <2>1, <3>1
    <3>7. Reverse(t)[m - i + 1] = t[n - m + i]
      BY <1>3, <3>4, <3>6
    <3> QED
      BY <2>1, <3>2, <3>3, <3>5, <3>7
  <2> QED
    BY <2>1, <2>2
<1>5. ASSUME m <= n, \A i \in 1 .. m : s[i] = t[n - m + i]
      PROVE  IsSuffix(s, t)
  <2>1. ASSUME NEW i \in 1 .. m PROVE Reverse(s)[i] = Reverse(t)[i]
    <3>1. m - i + 1 \in 1 .. m /\ n - m + (m - i + 1) = n - i + 1 /\ i \in 1 .. n
      BY <1>1, <1>5
    <3> QED
      BY <1>2, <1>3, <1>5, <3>1
  <2>2. SubSeq(Reverse(s), 1, m) = SubSeq(Reverse(t), 1, m)
    <3>1. m <= Len(Reverse(s)) /\ m <= Len(Reverse(t))
      BY <1>1, <1>2, <1>3, <1>5
    <3>2. Reverse(s) \in Seq(S) /\ Reverse(t) \in Seq(S)
      BY <1>2, <1>3
    <3> QED BY <1>1, <2>1, <3>1, <3>2, BeginningsAgree
  <2> QED
    BY <1>2, <1>3, <1>5, <2>2 DEF IsSuffix, IsPrefix
<1> QED
  BY <1>4, <1>5

\* Trim: the latest past, full of them or as many as the limit.
LEMMA TrimFacts ==
  ASSUME NEW S, NEW past \in Seq(S)
  PROVE  /\ Trim(past) \in Seq(S)
         /\ Len(Trim(past)) <= Len(past) /\ Len(Trim(past)) <= TrendLimit
         /\ Len(Trim(past)) = TrendLimit \/ Trim(past) = past
         /\ past # <<>> => Len(Trim(past)) > 0
         /\ \A i \in 1 .. Len(Trim(past)) :
              Trim(past)[i] = past[Len(past) - Len(Trim(past)) + i]
<1>1. CASE Len(past) > TrendLimit
  <2>1. Trim(past) = SubSeq(past, Len(past) - TrendLimit + 1, Len(past))
    BY <1>1, LimitIsPositive DEF Trim
  <2>2. Len(past) - TrendLimit + 1 \in 1 .. Len(past)
    BY <1>1, LimitIsPositive
  <2>3. /\ Trim(past) \in Seq(S) /\ Len(Trim(past)) = TrendLimit
        /\ \A i \in 1 .. TrendLimit : Trim(past)[i] = past[Len(past) - TrendLimit + i]
    BY <2>1, <2>2, LimitIsPositive
  <2> QED
    BY <1>1, <2>3, LimitIsPositive
<1>2. CASE ~(Len(past) > TrendLimit)
  <2>1. Trim(past) = past
    BY <1>2, LimitIsPositive DEF Trim
  <2> QED
    BY <1>2, <2>1, LimitIsPositive
<1> QED
  BY <1>1, <1>2

\* AppendRun: this run is the last one, behind all of the others the limit
\* allows.
LEMMA AppendRunFacts ==
  ASSUME NEW past \in Seq(Processes), NEW p \in Processes
  PROVE  /\ AppendRun(past, p) \in Seq(Processes)
         /\ Len(AppendRun(past, p)) \in 1 .. TrendLimit
         /\ Last(AppendRun(past, p)) = p
         /\ IsSuffix(AppendRun(past, p), Append(past, p))
         /\ \/ Len(AppendRun(past, p)) = TrendLimit
            \/ AppendRun(past, p) = Append(past, p)
<1> DEFINE longer == Append(past, p)
<1> DEFINE kept == AppendRun(past, p)
<1>1. longer \in Seq(Processes) /\ longer # <<>> /\ longer[Len(longer)] = p
  OBVIOUS
<1>2. kept = Trim(longer)
  BY DEF AppendRun
<1> HIDE DEF longer, kept
<1>3. /\ kept \in Seq(Processes)
      /\ Len(kept) <= Len(longer) /\ Len(kept) <= TrendLimit
      /\ Len(kept) = TrendLimit \/ kept = longer
      /\ Len(kept) > 0
      /\ \A i \in 1 .. Len(kept) : kept[i] = longer[Len(longer) - Len(kept) + i]
  BY <1>1, <1>2, TrimFacts
<1>4. kept[Len(kept)] = p
  BY <1>1, <1>3
<1>5. IsSuffix(kept, longer)
  BY <1>1, <1>3, SuffixByPosition
<1>6. Last(kept) = p
  BY <1>4 DEF Last
<1>7. Len(kept) \in 1 .. TrendLimit
  BY <1>3, LimitIsPositive
<1> QED
  BY <1>3, <1>5, <1>6, <1>7 DEF longer, kept

\* Trimming again after another run keeps a suffix of all runs: what the
\* earlier trimming dropped is dropped anyway.
LEMMA SuffixGrows ==
  ASSUME NEW past \in Seq(Processes), NEW full \in Seq(Processes), NEW p \in Processes,
         IsSuffix(past, full), Len(past) = TrendLimit \/ past = full
  PROVE  /\ IsSuffix(AppendRun(past, p), Append(full, p))
         /\ \/ Len(AppendRun(past, p)) = TrendLimit
            \/ AppendRun(past, p) = Append(full, p)
<1> DEFINE longer == Append(past, p)
<1> DEFINE kept == AppendRun(past, p)
<1> DEFINE every == Append(full, p)
<1>1. /\ longer \in Seq(Processes) /\ Len(longer) = Len(past) + 1
      /\ \A i \in 1 .. Len(past) : longer[i] = past[i]
      /\ longer[Len(longer)] = p
  OBVIOUS
<1>2. /\ every \in Seq(Processes) /\ Len(every) = Len(full) + 1
      /\ \A i \in 1 .. Len(full) : every[i] = full[i]
      /\ every[Len(every)] = p
  OBVIOUS
<1>3. past = full => longer = every
  OBVIOUS
<1>4. kept = Trim(longer)
  BY DEF AppendRun
<1> HIDE DEF longer, kept, every
<1>5. Len(past) <= Len(full) /\ \A i \in 1 .. Len(past) : past[i] = full[Len(full) - Len(past) + i]
  BY SuffixByPosition
<1>6. /\ kept \in Seq(Processes)
      /\ Len(kept) <= Len(longer) /\ Len(kept) <= TrendLimit
      /\ Len(kept) = TrendLimit \/ kept = longer
      /\ \A i \in 1 .. Len(kept) : kept[i] = longer[Len(longer) - Len(kept) + i]
  BY <1>1, <1>4, TrimFacts
<1>7. ASSUME NEW i \in 1 .. Len(longer)
      PROVE  longer[i] = every[Len(every) - Len(longer) + i]
  <2>1. CASE i = Len(longer)
    BY <1>1, <1>2, <2>1
  <2>2. CASE i # Len(longer)
    <3>1. i \in 1 .. Len(past) /\ Len(full) - Len(past) + i \in 1 .. Len(full)
      BY <1>1, <1>5, <2>2
    <3>2. Len(every) - Len(longer) + i = Len(full) - Len(past) + i
      BY <1>1, <1>2, <3>1
    <3> QED
      BY <1>1, <1>2, <1>5, <3>1, <3>2
  <2> QED
    BY <2>1, <2>2
<1>8. ASSUME NEW i \in 1 .. Len(kept) PROVE kept[i] = every[Len(every) - Len(kept) + i]
  <2>1. Len(longer) - Len(kept) + i \in 1 .. Len(longer)
    BY <1>1, <1>6
  <2>2. Len(every) - Len(longer) + (Len(longer) - Len(kept) + i) = Len(every) - Len(kept) + i
    BY <1>1, <1>2, <1>6
  <2>3. longer[Len(longer) - Len(kept) + i] = every[Len(every) - Len(kept) + i]
    BY <1>7, <2>1, <2>2
  <2> QED
    BY <1>6, <2>3
<1>9. Len(kept) <= Len(every)
  BY <1>1, <1>2, <1>5, <1>6
<1>10. IsSuffix(kept, every)
  BY <1>2, <1>6, <1>8, <1>9, SuffixByPosition
<1>11. Len(kept) = TrendLimit \/ kept = every
  <2>1. CASE Len(past) = TrendLimit
    <3>1. Len(longer) > TrendLimit
      BY <1>1, <2>1, LimitIsPositive
    <3> QED
      BY <1>6, <3>1, LimitIsPositive
  <2>2. CASE past = full
    BY <1>3, <1>6, <2>2
  <2> QED
    BY <2>1, <2>2
<1> QED
  BY <1>10, <1>11 DEF kept, every

-----------------------------------------------------------------------------
(* The invariant.                                                            *)

\* A history is neither a file that is not there nor one that does not decode.
LEMMA HistoriesDecode ==
  ASSUME NEW past \in Seq(Processes)
  PROVE  past # Absent /\ past # Garbage
<1>1. past \in Seq(Nat)
  <2>1. Processes \subseteq Nat
    BY TrendAssumption DEF Processes
  <2>2. Len(past) \in Nat
    OBVIOUS
  <2>3. ASSUME NEW i \in 1 .. Len(past) PROVE past[i] \in Nat
    <3>1. past[i] \in Processes
      OBVIOUS
    <3> QED
      BY <2>1, <3>1
  <2>4. past = [i \in 1 .. Len(past) |-> past[i]]
    OBVIOUS
  <2>5. [i \in 1 .. Len(past) |-> past[i]] \in Seq(Nat)
    BY <2>2, <2>3
  <2> QED
    BY <2>4, <2>5
<1> QED
  BY <1>1, TrendAssumption

\* No command is also the file that is not there.
LEMMA AbsentIsNoProcess == Absent \notin Processes
BY TrendAssumption DEF Processes

LEMMA InvInit == Init => HistoryInv
<1> SUFFICES ASSUME Init PROVE HistoryInv
  OBVIOUS
<1>1. TypeOK
  <2>1. /\ pc \in [Processes -> Stages]
        /\ base \in [Processes -> Seq(Processes)]
        /\ previous \in [Processes -> Processes \cup {Absent}]
        /\ temp \in [Processes -> {Absent, Garbage} \cup Seq(Processes)]
    BY DEF Init, Stages
  <2>2. file \in {Absent, Garbage} /\ overlap \in BOOLEAN
    BY DEF Init
  <2>3. appended \in Seq(Processes)
    BY DEF Init
  <2> QED
    BY <2>1, <2>2, <2>3 DEF TypeOK
<1>2. StagesAgree
  BY LimitIsPositive DEF Init, StagesAgree
<1>3. RunsAreThere
  BY DEF Init, RunsAreThere
<1>4. SerialHistoryIsExact
  BY DEF Init, SerialHistoryIsExact
<1> QED
  BY <1>1, <1>2, <1>3, <1>4 DEF HistoryInv

\* Load: what is held is the file, and compared is its latest run.
LEMMA LoadKeeps ==
  ASSUME HistoryInv, NEW p \in Processes, Load(p)
  PROVE  HistoryInv'
<1> USE DEF Load
<1>1. TypeOK /\ StagesAgree /\ RunsAreThere /\ SerialHistoryIsExact
  BY DEF HistoryInv
<1>2. /\ base'[p] \in Seq(Processes) /\ Len(base'[p]) <= TrendLimit
      /\ base' = [base EXCEPT ![p] = base'[p]]
      /\ base' \in [Processes -> Seq(Processes)]
  <2>1. (IF file = Absent THEN <<>> ELSE file) \in Seq(Processes)
        /\ Len(IF file = Absent THEN <<>> ELSE file) <= TrendLimit
    BY <1>1, LimitIsPositive DEF TypeOK
  <2> QED
    BY <1>1, <2>1 DEF TypeOK
<1>3. LatestRun(base'[p]) \in Processes \cup {Absent}
  BY <1>2 DEF LatestRun, Last
<1>4. /\ previous' \in [Processes -> Processes \cup {Absent}]
      /\ previous'[p] = LatestRun(base'[p])
      /\ \A q \in Processes \ {p} : previous'[q] = previous[q]
  BY <1>1, <1>3 DEF TypeOK
<1>5. /\ pc' \in [Processes -> Stages]
      /\ pc[p] = "start" /\ pc'[p] = "loaded"
      /\ \A q \in Processes \ {p} : pc'[q] = pc[q]
  BY <1>1 DEF TypeOK, Stages
<1>6. \A q \in Processes \ {p} : base'[q] = base[q]
  BY <1>2, <1>1 DEF TypeOK
<1>7. TypeOK'
  BY <1>1, <1>2, <1>4, <1>5 DEF TypeOK
<1>8. StagesAgree'
  <2> SUFFICES ASSUME NEW q \in Processes
               PROVE  /\ Len(base'[q]) <= TrendLimit
                      /\ pc'[q] \in {"loaded", "created", "written"} =>
                           file' # Garbage /\ previous'[q] = LatestRun(base'[q])
                      /\ pc'[q] = "written" => temp'[q] = AppendRun(base'[q], q)
    BY DEF StagesAgree
  <2>1. CASE q = p
    BY <2>1, <1>2, <1>4, <1>5
  <2>2. CASE q # p
    BY <2>2, <1>1, <1>4, <1>5, <1>6 DEF StagesAgree
  <2> QED
    BY <2>1, <2>2
<1>9. \A n \in 1 .. Len(appended) : appended[n] \in Processes \ {p}
  <2>1. ASSUME NEW n \in 1 .. Len(appended) PROVE appended[n] \in Processes \ {p}
    <3>1. appended[n] \in Processes
      BY <1>1 DEF TypeOK
    <3>2. pc[appended[n]] = "done"
      BY <1>1 DEF RunsAreThere
    <3> QED
      BY <1>5, <3>1, <3>2
  <2> QED
    BY <2>1
<1>10. RunsAreThere'
  BY <1>1, <1>5, <1>9 DEF RunsAreThere
<1>11. SerialHistoryIsExact'
  BY <1>1, <1>4, <1>9 DEF SerialHistoryIsExact
<1> QED
  BY <1>7, <1>8, <1>10, <1>11 DEF HistoryInv

\* The steps that touch neither the file nor what was loaded.
LEMMA OwnFilesKeep ==
  ASSUME HistoryInv, NEW p \in Processes,
         LoadFails(p) \/ CreateTemp(p) \/ WriteTemp(p) \/ WriteFails(p) \/ Kill(p)
  PROVE  HistoryInv'
<1>1. TypeOK /\ StagesAgree /\ RunsAreThere /\ SerialHistoryIsExact
  BY DEF HistoryInv
<1>2. UNCHANGED <<base, previous, file, appended, overlap>>
  BY DEF LoadFails, CreateTemp, WriteTemp, WriteFails, Kill
<1>3. AppendRun(base[p], p) \in Seq(Processes)
  BY <1>1, AppendRunFacts DEF TypeOK
<1>4. /\ temp' \in [Processes -> {Absent, Garbage} \cup Seq(Processes)]
      /\ \A q \in Processes \ {p} : temp'[q] = temp[q]
  BY <1>1, <1>3 DEF LoadFails, CreateTemp, WriteTemp, WriteFails, Kill, TypeOK
<1>5. /\ pc' \in [Processes -> Stages]
      /\ \A q \in Processes \ {p} : pc'[q] = pc[q]
      /\ pc[p] # "done"
      /\ pc'[p] \in {"loaded", "created", "written"} =>
           pc[p] \in {"loaded", "created", "written"}
  BY <1>1 DEF LoadFails, CreateTemp, WriteTemp, WriteFails, Kill, TypeOK, Stages, Ended
<1>6. pc'[p] = "written" => temp'[p] = AppendRun(base[p], p)
  BY <1>1 DEF LoadFails, CreateTemp, WriteTemp, WriteFails, Kill, TypeOK, Stages, Ended
<1>7. TypeOK'
  BY <1>1, <1>2, <1>4, <1>5 DEF TypeOK
<1>8. StagesAgree'
  <2> SUFFICES ASSUME NEW q \in Processes
               PROVE  /\ Len(base[q]) <= TrendLimit
                      /\ pc'[q] \in {"loaded", "created", "written"} =>
                           file # Garbage /\ previous[q] = LatestRun(base[q])
                      /\ pc'[q] = "written" => temp'[q] = AppendRun(base[q], q)
    BY <1>2 DEF StagesAgree
  <2>1. CASE q = p
    BY <2>1, <1>1, <1>5, <1>6 DEF StagesAgree
  <2>2. CASE q # p
    BY <2>2, <1>1, <1>4, <1>5 DEF StagesAgree
  <2> QED
    BY <2>1, <2>2
<1>9. RunsAreThere'
  BY <1>1, <1>2, <1>5 DEF TypeOK, RunsAreThere
<1>10. SerialHistoryIsExact'
  BY <1>1, <1>2 DEF SerialHistoryIsExact
<1> QED
  BY <1>7, <1>8, <1>9, <1>10 DEF HistoryInv

\* What Rename puts in the place of the file.
LEMMA RenameFacts ==
  ASSUME HistoryInv, NEW p \in Processes, Rename(p)
  PROVE  /\ file # Garbage /\ file' # Garbage /\ file' # Absent
         /\ file' = AppendRun(base[p], p)
         /\ file' \in Seq(Processes) /\ Len(file') \in 1 .. TrendLimit
         /\ base[p] \in Seq(Processes)
         /\ previous[p] = LatestRun(base[p])
<1>1. TypeOK /\ StagesAgree /\ pc[p] = "written" /\ file' = temp[p]
  BY DEF HistoryInv, Rename
<1>2. base[p] \in Seq(Processes)
  BY <1>1 DEF TypeOK
<1>3. file # Garbage /\ file' = AppendRun(base[p], p) /\ previous[p] = LatestRun(base[p])
  BY <1>1 DEF StagesAgree
<1>4. file' \in Seq(Processes) /\ Len(file') \in 1 .. TrendLimit
  BY <1>2, <1>3, AppendRunFacts
<1>5. file' # Garbage /\ file' # Absent
  BY <1>4, HistoriesDecode
<1> QED
  BY <1>2, <1>3, <1>4, <1>5

\* Rename over the file that was loaded: it ends where all runs end, and this
\* run was compared with the one before it.
LEMMA RenameIsExact ==
  ASSUME HistoryInv, NEW p \in Processes, Rename(p)
  PROVE  SerialHistoryIsExact'
<1>1. TypeOK /\ RunsAreThere /\ SerialHistoryIsExact
  BY DEF HistoryInv
<1>2. /\ file # Garbage /\ file' # Garbage /\ file' # Absent
      /\ file' = AppendRun(base[p], p)
      /\ previous[p] = LatestRun(base[p])
  BY RenameFacts
<1>3. /\ appended' = Append(appended, p) /\ previous' = previous
      /\ overlap' = (overlap \/ base[p] # IF file = Absent THEN <<>> ELSE file)
  BY DEF Rename
<1>4. appended \in Seq(Processes) /\ overlap \in BOOLEAN
  BY <1>1 DEF TypeOK
<1> SUFFICES ASSUME ~overlap'
             PROVE  /\ IsSuffix(file', appended')
                    /\ Len(file') = TrendLimit \/ file' = appended'
                    /\ \A n \in 1 .. Len(appended') :
                         previous[appended'[n]] = IF n = 1 THEN Absent ELSE appended'[n - 1]
  BY <1>2, <1>3 DEF SerialHistoryIsExact
<1>5. ~overlap /\ base[p] = IF file = Absent THEN <<>> ELSE file
  BY <1>3, <1>4
<1>6. /\ base[p] \in Seq(Processes)
      /\ IsSuffix(base[p], appended)
      /\ Len(base[p]) = TrendLimit \/ base[p] = appended
      /\ base[p] = <<>> => appended = <<>>
  <2>1. CASE file = Absent
    <3>1. base[p] = <<>> /\ appended = <<>>
      BY <1>1, <1>5, <2>1 DEF SerialHistoryIsExact
    <3>2. IsSuffix(<<>>, <<>>)
      BY DEF IsSuffix, IsPrefix
    <3> QED
      BY <1>4, <3>1, <3>2
  <2>2. CASE file # Absent
    <3>1. base[p] = file
      BY <1>5, <2>2
    <3>2. file \in Seq(Processes) /\ Len(file) > 0
      BY <1>1, <1>2, <2>2 DEF TypeOK, RunsAreThere
    <3>3. IsSuffix(file, appended) /\ (Len(file) = TrendLimit \/ file = appended)
      BY <1>1, <1>2, <1>5, <2>2 DEF SerialHistoryIsExact
    <3> QED
      BY <3>1, <3>2, <3>3
  <2> QED
    BY <2>1, <2>2
<1>7. /\ IsSuffix(file', appended')
      /\ Len(file') = TrendLimit \/ file' = appended'
  BY <1>2, <1>3, <1>4, <1>6, SuffixGrows
<1>8. previous[p] = IF Len(appended) = 0 THEN Absent ELSE appended[Len(appended)]
  <2>1. CASE base[p] = <<>>
    BY <1>2, <1>4, <1>6, <2>1 DEF LatestRun
  <2>2. CASE base[p] # <<>>
    <3>1. previous[p] = base[p][Len(base[p])]
      BY <1>2, <2>2 DEF LatestRun, Last
    <3>2. /\ Len(base[p]) <= Len(appended)
          /\ base[p][Len(base[p])] = appended[Len(appended) - Len(base[p]) + Len(base[p])]
      <4>1. Len(base[p]) \in 1 .. Len(base[p])
        BY <1>6, <2>2
      <4> QED
        BY <1>4, <1>6, <4>1, SuffixByPosition
    <3>3. Len(appended) > 0 /\ Len(appended) - Len(base[p]) + Len(base[p]) = Len(appended)
      BY <1>4, <1>6, <2>2, <3>2
    <3> QED
      BY <3>1, <3>2, <3>3
  <2> QED
    BY <2>1, <2>2
<1>9. ASSUME NEW n \in 1 .. Len(appended')
      PROVE  previous[appended'[n]] = IF n = 1 THEN Absent ELSE appended'[n - 1]
  <2>1. CASE n = Len(appended) + 1
    BY <1>3, <1>4, <1>8, <2>1
  <2>2. CASE n # Len(appended) + 1
    <3>1. n \in 1 .. Len(appended)
      BY <1>3, <1>4, <2>2
    <3>2. appended'[n] = appended[n] /\ (n # 1 => appended'[n - 1] = appended[n - 1])
      BY <1>3, <1>4, <3>1
    <3> QED
      BY <1>1, <1>5, <3>1, <3>2 DEF SerialHistoryIsExact
  <2> QED
    BY <2>1, <2>2
<1> QED
  BY <1>7, <1>9

LEMMA RenameKeeps ==
  ASSUME HistoryInv, NEW p \in Processes, Rename(p)
  PROVE  HistoryInv'
<1>1. TypeOK /\ StagesAgree /\ RunsAreThere
  BY DEF HistoryInv
<1>2. /\ file' # Garbage
      /\ file' \in Seq(Processes) /\ Len(file') \in 1 .. TrendLimit
  BY RenameFacts
<1>3. /\ appended' = Append(appended, p) /\ previous' = previous /\ base' = base
      /\ temp' = [temp EXCEPT ![p] = Absent]
      /\ pc' = [pc EXCEPT ![p] = "done"]
      /\ overlap' \in BOOLEAN
  BY <1>1 DEF Rename, TypeOK
<1>4. TypeOK'
  BY <1>1, <1>2, <1>3, LimitIsPositive DEF TypeOK, Stages
<1>5. StagesAgree'
  BY <1>1, <1>2, <1>3 DEF TypeOK, StagesAgree
<1>6. RunsAreThere'
  <2>1. ASSUME NEW n \in 1 .. Len(appended') PROVE pc'[appended'[n]] = "done"
    <3>1. appended'[n] = p \/ (n \in 1 .. Len(appended) /\ appended'[n] = appended[n])
      BY <1>1, <1>3 DEF TypeOK
    <3>2. \A m \in 1 .. Len(appended) : appended[m] \in Processes /\ pc[appended[m]] = "done"
      BY <1>1 DEF TypeOK, RunsAreThere
    <3> QED
      BY <1>1, <1>3, <3>1, <3>2 DEF TypeOK
  <2> QED
    BY <1>2, <2>1 DEF RunsAreThere
<1>7. SerialHistoryIsExact'
  BY RenameIsExact
<1> QED
  BY <1>4, <1>5, <1>6, <1>7 DEF HistoryInv

LEMMA InvNext == HistoryInv /\ [Next]_vars => HistoryInv'
<1> SUFFICES ASSUME HistoryInv, [Next]_vars PROVE HistoryInv'
  OBVIOUS
<1>1. ASSUME NEW p \in Processes, Step(p) \/ Kill(p) PROVE HistoryInv'
  <2>1. CASE Load(p)
    BY <2>1, LoadKeeps
  <2>2. CASE LoadFails(p) \/ CreateTemp(p) \/ WriteTemp(p) \/ WriteFails(p) \/ Kill(p)
    BY <2>2, OwnFilesKeep
  <2>3. CASE Rename(p)
    BY <2>3, RenameKeeps
  <2> QED
    BY <1>1, <2>1, <2>2, <2>3 DEF Step
<1>2. CASE UNCHANGED vars
  BY <1>2 DEF vars, HistoryInv, TypeOK, StagesAgree, RunsAreThere, SerialHistoryIsExact
<1> QED
  BY <1>1, <1>2 DEF Next

-----------------------------------------------------------------------------
(* What a step may do to the file.                                           *)

\* Only Rename touches the file and ends a command well.
LEMMA OnlyRenameWrites ==
  ASSUME HistoryInv, NEW p \in Processes, Step(p) \/ Kill(p), ~Rename(p)
  PROVE  /\ file' = file
         /\ \A q \in Processes : pc[q] # "done" => pc'[q] # "done"
<1>1. pc \in [Processes -> Stages]
  BY DEF HistoryInv, TypeOK
<1> QED
  BY <1>1 DEF Step, Load, LoadFails, CreateTemp, WriteTemp, WriteFails, Kill

\* No step makes the history undecodable or decides what to do with one that is.
LEMMA WholeStep ==
  HistoryInv /\ [Next]_vars => (file = Garbage) = (file' = Garbage)
<1> SUFFICES ASSUME HistoryInv, [Next]_vars
             PROVE  (file = Garbage) = (file' = Garbage)
  OBVIOUS
<1>1. ASSUME NEW p \in Processes, Step(p) \/ Kill(p)
      PROVE  (file = Garbage) = (file' = Garbage)
  <2>1. CASE Rename(p)
    BY <2>1, RenameFacts
  <2>2. CASE ~Rename(p)
    BY <1>1, <2>2, OnlyRenameWrites
  <2> QED
    BY <2>1, <2>2
<1>2. CASE UNCHANGED vars
  BY <1>2 DEF vars
<1> QED
  BY <1>1, <1>2 DEF Next

\* A command that ends well leaves its run last, behind all of the history it
\* loaded that the limit allows.
LEMMA SuccessStep ==
  ASSUME HistoryInv, [Next]_vars, NEW p \in Processes, pc[p] = "written", pc'[p] = "done"
  PROVE  /\ Last(file') = p
         /\ IsSuffix(file', Append(base[p], p))
         /\ Len(file') = TrendLimit \/ Len(file') = Len(base[p]) + 1
<1>1. PICK q \in Processes : Step(q) \/ Kill(q)
  BY DEF Next, vars
<1>2. Rename(q)
  BY <1>1, OnlyRenameWrites
<1>3. q = p
  BY <1>2 DEF Rename, HistoryInv, TypeOK
<1>4. file' = AppendRun(base[p], p) /\ base[p] \in Seq(Processes)
  BY <1>2, <1>3, RenameFacts
<1>5. /\ Last(file') = p
      /\ IsSuffix(file', Append(base[p], p))
      /\ Len(file') = TrendLimit \/ file' = Append(base[p], p)
  BY <1>4, AppendRunFacts
<1>6. Len(Append(base[p], p)) = Len(base[p]) + 1
  BY <1>4
<1> QED
  BY <1>5, <1>6

\* Nothing but a command that ends well changes the file.
LEMMA ChangeStep ==
  ASSUME HistoryInv, [Next]_vars, file' # file
  PROVE  \E p \in Processes : pc[p] = "written" /\ pc'[p] = "done"
<1>1. PICK q \in Processes : Step(q) \/ Kill(q)
  BY DEF Next, vars
<1>2. Rename(q)
  BY <1>1, OnlyRenameWrites
<1> QED
  BY <1>2 DEF Rename, HistoryInv, TypeOK

-----------------------------------------------------------------------------
(* The theorems.                                                             *)

\* For any number of commands and any limit: every stage agrees with the file,
\* and without overlap the file is the latest runs that ended well
\* (loadOrInit, AppendRun, writeFileAtomic).
THEOREM HistoryInvariant == Spec => []HistoryInv
<1> QED
  BY InvInit, InvNext, PTL DEF Spec

\* Whatever fails, is killed or runs beside it: the trend file stays one that
\* loads; only a run that ends well changes it and keeps all that the limit
\* allows; runs that do not overlap lose nothing, and each is compared with
\* the one before it (AttachAndPersist).
THEOREM HistoryStaysExact == Spec => HistoryIsExact
<1>1. HistoryInv => TypeOK /\ SerialHistoryIsExact
  BY DEF HistoryInv
<1>2. HistoryInv /\ [Next]_vars => [(file = Garbage) = (file' = Garbage)]_vars
  BY WholeStep
<1>3. HistoryInv /\ [Next]_vars =>
        [LET succeeds(p) == pc[p] = "written" /\ pc'[p] = "done"
         IN  /\ file' # file => \E p \in Processes : succeeds(p)
             /\ \A p \in Processes : succeeds(p) =>
                  /\ Last(file') = p
                  /\ IsSuffix(file', Append(base[p], p))
                  /\ Len(file') = TrendLimit \/ Len(file') = Len(base[p]) + 1]_vars
  BY SuccessStep, ChangeStep
<1> QED
  BY <1>1, <1>2, <1>3, HistoryInvariant, PTL
  DEF Spec, HistoryIsExact, HistoryStaysWhole, OnlySuccessChangesHistory

\* The same of the project, whose run checks it.
THEOREM ProjectHistoryIsExact == ProjectSpec => HistoryIsExact
<1>1. ProjectInit => Init
  BY DEF ProjectInit
<1>2. [ProjectNext]_all => [Next]_vars
  <2>1. UNCHANGED all => UNCHANGED vars
    BY DEF all
  <2>2. ProjectNext => Next \/ UNCHANGED vars
    BY DEF ProjectNext
  <2> QED BY <2>1, <2>2
<1>3. ProjectSpec => Spec
  BY <1>1, <1>2, PTL DEF ProjectSpec, Spec
<1> QED BY <1>3, HistoryStaysExact

-----------------------------------------------------------------------------
(***************************************************************************)
(* The provider profile.  A setup adds its provider to the profile it has     *)
(* read: what it saves has the latest provider of each name stored so far and *)
(* the names the profile had at first.                                        *)
(***************************************************************************)
Places == {"start", "asked", "loaded", "opened", "saved", "done", "failed", "killed"}

ProfileTypes ==
  /\ setupAt \in [Setups -> Places]
  /\ wants \in [Setups -> Profile!Entries \cup {Absent}]
  /\ held \in [Setups -> Profile!Files]
  /\ profile \in Profile!Files \cup Profile!Unreadable
  /\ generated \in [Setups -> {Absent} \cup [provider : ProviderNames, env : Envs \cup {Absent}]]
  /\ stored \in Seq(Profile!Entries)
  /\ first \in HandMade \cup {Absent, Garbage}
  /\ serial \in BOOLEAN

\* What a setup is about when it saves, and what its configuration says.
WantsInv ==
  /\ \A s \in Setups :
       /\ setupAt[s] \in {"asked", "loaded", "opened", "saved"} \/ generated[s] # Absent =>
            wants[s] \in Profile!Entries /\ wants[s].name \in ProviderNames
       /\ generated[s] # Absent =>
            /\ setupAt[s] = "done"
            /\ generated[s] = [provider |-> wants[s].name, env |-> wants[s].env]
  /\ \A i \in DOMAIN stored : stored[i].name \in ProviderNames

FirstNames == IF first = Absent THEN {} ELSE Profile!NamesOf(first.providers)

\* Without overlap one setup at a time is between its reading and the end of
\* its writing, what it holds is the profile as it shall be, and the file is
\* only empty while it writes.
HeldInv(s) ==
  /\ held[s].default = wants[s].name
  /\ \A e \in held[s].providers :
       IF e.name = wants[s].name THEN e = wants[s] ELSE e.name \in Profile!StoredNames => Profile!IsLatest(e)
  /\ Profile!NamesOf(held[s].providers) = {wants[s].name} \cup Profile!StoredNames \cup FirstNames

SavingInv ==
  serial =>
    /\ \A s, t \in Setups : setupAt[s] \in Profile!Saving /\ setupAt[t] \in Profile!Saving => s = t
    /\ \A s \in Setups : setupAt[s] = "opened" => profile = Empty
    /\ \A s \in Setups : setupAt[s] \in Profile!Saving => HeldInv(s)

ReadyInv ==
  /\ Profile!SerialProfileIsExact
  /\ serial /\ Profile!NobodyWrites /\ stored # <<>> => profile \in Profile!Files

ProfileInv == ProfileTypes /\ WantsInv /\ SavingInv /\ ReadyInv

-----------------------------------------------------------------------------
LEMMA LatestOfMore ==
  ASSUME stored \in Seq(Profile!Entries), NEW w \in Profile!Entries, stored' = Append(stored, w)
  PROVE  /\ stored' \in Seq(Profile!Entries) /\ stored' # <<>> /\ Last(stored') = w
         /\ Profile!StoredNames' = Profile!StoredNames \cup {w.name}
         /\ Profile!IsLatest(w)'
         /\ \A e : Profile!IsLatest(e) /\ e.name # w.name => Profile!IsLatest(e)'
<1>1. /\ DOMAIN stored = 1 .. Len(stored) /\ DOMAIN stored' = 1 .. Len(stored) + 1 /\ Len(stored) \in Nat
      /\ \A i \in 1 .. Len(stored) : stored'[i] = stored[i]
      /\ stored'[Len(stored) + 1] = w
  OBVIOUS
<1>2. stored' \in Seq(Profile!Entries) /\ stored' # <<>> /\ Last(stored') = w
  BY <1>1 DEF Last
<1>3. Profile!StoredNames' = Profile!StoredNames \cup {w.name}
  BY <1>1 DEF Profile!StoredNames
<1>4. Profile!IsLatest(w)'
  BY <1>1 DEF Profile!IsLatest
<1>5. ASSUME NEW e, Profile!IsLatest(e), e.name # w.name PROVE Profile!IsLatest(e)'
  <2>1. PICK i \in DOMAIN stored : stored[i] = e /\ \A j \in DOMAIN stored : j > i => stored[j].name # e.name
    BY <1>5 DEF Profile!IsLatest
  <2>2. i \in DOMAIN stored' /\ stored'[i] = e
    BY <1>1, <2>1
  <2>3. ASSUME NEW j \in DOMAIN stored', j > i PROVE stored'[j].name # e.name
    BY <1>1, <1>5, <2>1, <2>3
  <2> QED BY <2>2, <2>3 DEF Profile!IsLatest
<1> QED BY <1>2, <1>3, <1>4, <1>5

\* There is one latest entry of a name.
LEMMA OneIsLatest ==
  ASSUME stored \in Seq(Profile!Entries), NEW d, NEW e, Profile!IsLatest(d), Profile!IsLatest(e), d.name = e.name
  PROVE  d = e
<1>1. PICK i \in DOMAIN stored : stored[i] = d /\ \A j \in DOMAIN stored : j > i => stored[j].name # d.name
  BY DEF Profile!IsLatest
<1>2. PICK k \in DOMAIN stored : stored[k] = e /\ \A j \in DOMAIN stored : j > k => stored[j].name # e.name
  BY DEF Profile!IsLatest
<1>3. DOMAIN stored = 1 .. Len(stored) /\ Len(stored) \in Nat
  OBVIOUS
<1>4. ~ (k > i) /\ ~ (i > k)
  BY <1>1, <1>2
<1> QED BY <1>1, <1>2, <1>3, <1>4

\* A file that was read is one; it has the names of what is there.
LEMMA ReadIsAFile ==
  ASSUME NEW read \in Profile!Files, NEW got \in Profile!normalizeFile(read)
  PROVE  /\ got \in Profile!Files /\ got.default = read.default /\ got.providers \subseteq read.providers
         /\ Profile!NamesOf(got.providers) = Profile!NamesOf(read.providers)
         /\ \A e \in got.providers : e.name # Absent /\ \A d \in got.providers : d.name = e.name => d = e
BY DEF Profile!normalizeFile, Profile!File, Profile!Files

\* Of every name there is an entry to keep.
LEMMA CanBeRead ==
  ASSUME NEW read \in Profile!Files
  PROVE  Profile!normalizeFile(read) # {}
<1> DEFINE pick(n) == CHOOSE e \in read.providers : e.name = n
           es == {pick(n) : n \in Profile!NamesOf(read.providers)}
<1>1. \A n \in Profile!NamesOf(read.providers) : pick(n) \in read.providers /\ pick(n).name = n /\ n # Absent
  BY DEF Profile!NamesOf
<1>2. es \in SUBSET read.providers
  BY <1>1
<1>3. ASSUME NEW e \in es PROVE e.name # Absent /\ \A d \in es : d.name = e.name => d = e
  <2>1. PICK n \in Profile!NamesOf(read.providers) : e = pick(n)
    BY <1>3
  <2>2. ASSUME NEW d \in es, d.name = e.name PROVE d = e
    <3>1. PICK m \in Profile!NamesOf(read.providers) : d = pick(m)
      OBVIOUS
    <3> HIDE DEF pick
    <3> QED BY <1>1, <2>1, <2>2, <3>1
  <2> HIDE DEF pick
  <2> QED BY <1>1, <2>1, <2>2
<1>4. Profile!NamesOf(es) = Profile!NamesOf(read.providers)
  <2> HIDE DEF pick
  <2> QED BY <1>1 DEF Profile!NamesOf
<1> HIDE DEF es
<1> QED BY <1>2, <1>3, <1>4 DEF Profile!normalizeFile

LEMMA ProfileFacts ==
  /\ Absent \notin ProviderNames /\ Absent \notin Profile!Entries
  /\ Absent # Empty /\ Absent # Garbage
  /\ HandMade \subseteq Profile!Files
  /\ \A read \in Profile!Files : read \notin Profile!Unreadable
  /\ Profile!defaultFile \in Profile!Files
  /\ Absent \notin [provider : ProviderNames, env : Envs \cup {Absent}]
<1>1. Profile!defaultFile \in Profile!Files
  BY DEF Profile!defaultFile, Profile!File, Profile!Files
<1> QED BY <1>1, ProjectAssumption DEF Profile!ProfileAssumption

LEMMA ProfileStarts ==
  ASSUME Profile!Init
  PROVE  ProfileInv
<1> USE DEF Profile!Init
<1>1. ProfileTypes
  <2>1. stored \in Seq(Profile!Entries)
    OBVIOUS
  <2>2. profile \in Profile!Files \cup Profile!Unreadable
    BY ProfileFacts DEF Profile!Unreadable
  <2>3. setupAt \in [Setups -> Places]
    BY DEF Places
  <2> QED BY <2>1, <2>2, <2>3, ProfileFacts DEF ProfileTypes
<1>2. WantsInv
  BY DEF WantsInv
<1>3. SavingInv
  BY DEF SavingInv, Profile!Saving
<1>4. ReadyInv
  BY DEF ReadyInv, Profile!SerialProfileIsExact
<1> QED BY <1>1, <1>2, <1>3, <1>4 DEF ProfileInv

-----------------------------------------------------------------------------
(* The actions.                                                             *)

\* A step of one setup outside of its saving leaves the others' as it is.
LEMMA QuietStep ==
  ASSUME ProfileInv, NEW s \in Setups, ProfileTypes',
         setupAt[s] # "opened", setupAt'[s] \notin Profile!Saving,
         \A t \in Setups \ {s} : setupAt'[t] = setupAt[t] /\ wants'[t] = wants[t],
         UNCHANGED <<held, profile, stored, first, serial>>
  PROVE  SavingInv' /\ ReadyInv'
<1> USE DEF ProfileInv
<1>1. SavingInv'
  <2>1. \A t \in Setups : setupAt'[t] \in Profile!Saving => t # s /\ setupAt[t] \in Profile!Saving
    BY DEF Profile!Saving
  <2>2. \A t \in Setups : t # s /\ HeldInv(t) => HeldInv(t)'
    BY DEF HeldInv, FirstNames, Profile!StoredNames, Profile!IsLatest
  <2>3. \A t \in Setups : setupAt'[t] = "opened" => setupAt[t] = "opened"
    BY DEF Profile!Saving
  <2> QED BY <2>1, <2>2, <2>3 DEF SavingInv
<1>2. ReadyInv'
  <2>1. Profile!NobodyWrites' => Profile!NobodyWrites
    BY DEF Profile!NobodyWrites
  <2> QED BY <2>1 DEF ReadyInv, Profile!SerialProfileIsExact, Profile!StoredNames, Profile!IsLatest
<1> QED BY <1>1, <1>2

LEMMA ProfileAsk ==
  ASSUME ProfileInv, NEW s \in Setups, Profile!Ask(s)
  PROVE  ProfileInv'
<1> USE DEF ProfileInv, Profile!Ask
<1>0. s \in Profile!Keys /\ ~ (setupAt[s] \in {"asked", "loaded", "opened", "saved"})
  BY DEF Profile!Keys
<1>a. /\ setupAt' = [setupAt EXCEPT ![s] = "asked"] /\ DOMAIN setupAt = Setups
      /\ wants' \in [Setups -> Profile!Entries \cup {Absent}]
      /\ wants'[s] \in Profile!Entries /\ wants'[s].name \in ProviderNames
      /\ \A t \in Setups \ {s} : wants'[t] = wants[t]
  BY <1>0 DEF ProfileTypes, Profile!Entries
<1>1. ProfileTypes'
  BY <1>a DEF ProfileTypes, Places
<1>2. WantsInv'
  <2>1. generated[s] = Absent
    BY DEF WantsInv
  <2> QED BY <1>a, <2>1 DEF WantsInv
<1>3. SavingInv' /\ ReadyInv'
  <2>1. setupAt'[s] = "asked"
    BY <1>a
  <2>2. setupAt'[s] \notin Profile!Saving
    BY <2>1 DEF Profile!Saving
  <2> QED BY <1>a, <1>1, <2>2, QuietStep
<1> QED BY <1>1, <1>2, <1>3

LEMMA ProfileTakeDefault ==
  ASSUME ProfileInv, NEW s \in Setups, Profile!TakeDefault(s)
  PROVE  ProfileInv'
<1> USE DEF ProfileInv, Profile!TakeDefault
<1>0. profile \in Profile!Files /\ setupAt[s] = "start"
  BY DEF ProfileTypes
<1>d. PICK read \in Profile!normalizeFile(profile) :
        \E e \in Profile!DefaultProvider(read) : wants' = [wants EXCEPT ![s] = e]
  OBVIOUS
<1>a. PICK e \in Profile!DefaultProvider(read) : wants' = [wants EXCEPT ![s] = e]
  BY <1>d
<1>b. e \in Profile!Entries /\ e.name \in ProviderNames
  <2>1. read \in Profile!Files /\ e \in read.providers /\ e.name # Absent
    BY <1>0, ReadIsAFile DEF Profile!DefaultProvider
  <2>2. e \in Profile!Entries
    BY <2>1 DEF Profile!Files
  <2> QED BY <2>1, <2>2 DEF Profile!Entries
<1>c. /\ setupAt' = [setupAt EXCEPT ![s] = "saved"] /\ DOMAIN setupAt = Setups /\ DOMAIN wants = Setups
      /\ wants'[s] = e /\ \A t \in Setups \ {s} : wants'[t] = wants[t]
  BY <1>a DEF ProfileTypes
<1>1. ProfileTypes'
  BY <1>a, <1>b, <1>c DEF ProfileTypes, Places
<1>2. WantsInv'
  <2>1. generated[s] = Absent
    BY <1>0 DEF WantsInv
  <2> QED BY <1>b, <1>c, <2>1 DEF WantsInv
<1>3. SavingInv' /\ ReadyInv'
  <2>1. setupAt'[s] \notin Profile!Saving
    BY <1>c DEF Profile!Saving
  <2> QED BY <1>0, <1>c, <1>1, <2>1, QuietStep
<1> QED BY <1>1, <1>2, <1>3

LEMMA ProfileWriteConfig ==
  ASSUME ProfileInv, NEW s \in Setups, Profile!WriteConfig(s)
  PROVE  ProfileInv'
<1> USE DEF ProfileInv, Profile!WriteConfig
<1>a. wants[s] \in Profile!Entries /\ wants[s].name \in ProviderNames /\ wants[s].env \in Envs \cup {Absent}
  BY DEF WantsInv, Profile!Entries
<1>b. /\ setupAt' = [setupAt EXCEPT ![s] = "done"] /\ DOMAIN setupAt = Setups /\ DOMAIN generated = Setups
      /\ generated' = [generated EXCEPT ![s] = [provider |-> wants[s].name, env |-> wants[s].env]]
  BY DEF ProfileTypes
<1>1. ProfileTypes'
  BY <1>a, <1>b DEF ProfileTypes, Places
<1>2. WantsInv'
  BY <1>a, <1>b DEF WantsInv
<1>3. SavingInv' /\ ReadyInv'
  <2>1. setupAt'[s] \notin Profile!Saving
    BY <1>b DEF Profile!Saving
  <2> QED BY <1>b, <1>1, <2>1, QuietStep
<1> QED BY <1>1, <1>2, <1>3

LEMMA ProfileStop ==
  ASSUME ProfileInv, NEW s \in Setups, Profile!Stop(s)
  PROVE  ProfileInv'
<1> USE DEF ProfileInv, Profile!Stop
<1>b. setupAt' = [setupAt EXCEPT ![s] = "failed"] /\ DOMAIN setupAt = Setups /\ setupAt[s] \notin {"done", "opened"}
  BY DEF ProfileTypes, Profile!Ended
<1>1. ProfileTypes'
  BY <1>b DEF ProfileTypes, Places
<1>2. WantsInv'
  BY <1>b DEF WantsInv
<1>3. SavingInv' /\ ReadyInv'
  <2>1. setupAt'[s] \notin Profile!Saving
    BY <1>b DEF Profile!Saving
  <2> QED BY <1>b, <1>1, <2>1, QuietStep
<1> QED BY <1>1, <1>2, <1>3

\* What is read without overlap is the profile as it was left.
LEMMA ProfileLoad ==
  ASSUME ProfileInv, NEW s \in Setups, Profile!Load(s)
  PROVE  ProfileInv'
<1> USE DEF ProfileInv, Profile!Load
<1>a. PICK read \in Profile!LoadOrCreate(profile) : held' = [held EXCEPT ![s] = Profile!WithProvider(read, wants[s])]
  OBVIOUS
<1>b. wants[s] \in Profile!Entries /\ wants[s].name \in ProviderNames
  BY DEF WantsInv
<1>c. /\ read \in Profile!Files
      /\ \/ profile = Absent /\ read = Profile!defaultFile
         \/ profile \in Profile!Files /\ read \in Profile!normalizeFile(profile)
  <2>1. CASE profile = Absent
    <3>1. read = Profile!defaultFile
      BY <2>1 DEF Profile!LoadOrCreate
    <3> QED BY <2>1, <3>1, ProfileFacts
  <2>2. CASE profile # Absent
    <3>1. profile \in Profile!Files /\ read \in Profile!normalizeFile(profile)
      BY <2>2 DEF Profile!LoadOrCreate, ProfileTypes
    <3> QED BY <3>1, ReadIsAFile
  <2> QED BY <2>1, <2>2
<1> DEFINE next == Profile!WithProvider(read, wants[s])
<1>d. /\ next \in Profile!Files /\ next.default = wants[s].name
      /\ next.providers = {e \in read.providers : e.name # wants[s].name} \cup {wants[s]}
  BY <1>b, <1>c DEF Profile!WithProvider, Profile!File, Profile!Files
<1>e. /\ setupAt' = [setupAt EXCEPT ![s] = "loaded"] /\ DOMAIN setupAt = Setups /\ DOMAIN held = Setups
      /\ held'[s] = next
  BY <1>a DEF ProfileTypes
<1> HIDE DEF next
<1>1. ProfileTypes'
  <2>1. held' \in [Setups -> Profile!Files]
    BY <1>a, <1>d, <1>e DEF ProfileTypes, next
  <2>2. setupAt' \in [Setups -> Places]
    BY <1>e DEF ProfileTypes, Places
  <2> QED BY <2>1, <2>2 DEF ProfileTypes
<1>2. WantsInv'
  BY <1>b, <1>e DEF WantsInv
<1>read. setupAt'[s] = "loaded" /\ setupAt[s] = "asked" /\ \A t \in Setups \ {s} : setupAt'[t] = setupAt[t]
  BY <1>e
<1>3. SavingInv'
  <2>1. SUFFICES ASSUME serial' PROVE SavingInv'
    BY DEF SavingInv
  <2>2. serial /\ \A t \in Setups : setupAt[t] \notin Profile!Saving
    BY <1>read, <2>1 DEF ProfileTypes, Profile!Saving
  <2>3. \A t \in Setups : setupAt'[t] \in Profile!Saving => t = s
    BY <1>read, <2>2
  <2>4. \A t \in Setups : setupAt'[t] # "opened"
    BY <1>read, <2>2 DEF Profile!Saving
  <2>5. Profile!NobodyWrites
    BY <2>2 DEF Profile!NobodyWrites, Profile!Saving
  <2>6. /\ \A e \in read.providers : e.name \in Profile!StoredNames => Profile!IsLatest(e)
        /\ Profile!NamesOf(read.providers) = Profile!StoredNames \cup FirstNames
    <3>1. CASE stored = <<>>
      <4>1. profile = first /\ Profile!StoredNames = {}
        BY <2>2, <2>5, <3>1 DEF ReadyInv, Profile!SerialProfileIsExact, Profile!StoredNames
      <4>2. Profile!NamesOf(read.providers) = FirstNames
        <5>1. CASE first = Absent
          BY <1>c, <4>1, <5>1, ProfileFacts DEF FirstNames, Profile!defaultFile, Profile!File, Profile!NamesOf, Profile!Unreadable
        <5>2. CASE first # Absent
          BY <1>c, <4>1, <5>2, ReadIsAFile DEF FirstNames
        <5> QED BY <5>1, <5>2
      <4> QED BY <4>1, <4>2
    <3>2. CASE stored # <<>>
      <4>1. /\ profile \in Profile!Files
            /\ \A e \in profile.providers : e.name \in Profile!StoredNames => Profile!IsLatest(e)
            /\ Profile!NamesOf(profile.providers) = Profile!StoredNames \cup FirstNames
        BY <2>2, <2>5, <3>2 DEF ReadyInv, Profile!SerialProfileIsExact, FirstNames
      <4>2. read \in Profile!normalizeFile(profile)
        BY <1>c, <4>1, ProfileFacts DEF Profile!Unreadable
      <4> QED BY <4>1, <4>2, ReadIsAFile
    <3> QED BY <3>1, <3>2
  <2>7. Profile!NamesOf(next.providers) = {wants[s].name} \cup Profile!StoredNames \cup FirstNames
    <3>1. Profile!NamesOf(next.providers) = {wants[s].name} \cup Profile!NamesOf(read.providers)
      BY <1>b, <1>d, ProfileFacts DEF Profile!NamesOf
    <3> QED BY <2>6, <3>1
  <2>8. HeldInv(s)'
    <3>1. \A e : Profile!IsLatest(e)' <=> Profile!IsLatest(e)
      BY DEF Profile!IsLatest
    <3>2. Profile!StoredNames' = Profile!StoredNames /\ FirstNames' = FirstNames /\ wants' = wants
      BY DEF Profile!StoredNames, FirstNames
    <3> QED BY <1>d, <1>e, <2>6, <2>7, <3>1, <3>2 DEF HeldInv
  <2> QED BY <2>3, <2>4, <2>8 DEF SavingInv
<1>4. ReadyInv'
  <2>1. Profile!NobodyWrites' => Profile!NobodyWrites
    BY <1>read DEF Profile!NobodyWrites
  <2>2. serial' => serial
    BY DEF ProfileTypes
  <2> QED BY <2>1, <2>2 DEF ReadyInv, Profile!SerialProfileIsExact, Profile!StoredNames, Profile!IsLatest
<1> QED BY <1>1, <1>2, <1>3, <1>4

LEMMA ProfileTruncate ==
  ASSUME ProfileInv, NEW s \in Setups, Profile!Truncate(s)
  PROVE  ProfileInv'
<1> USE DEF ProfileInv, Profile!Truncate
<1>a. setupAt' = [setupAt EXCEPT ![s] = "opened"] /\ DOMAIN setupAt = Setups
  BY DEF ProfileTypes
<1>1. ProfileTypes'
  <2>1. profile' \in Profile!Unreadable
    BY DEF Profile!Unreadable
  <2> QED BY <1>a, <2>1 DEF ProfileTypes, Places
<1>2. WantsInv'
  BY <1>a DEF WantsInv
<1>3. SavingInv'
  <2>1. \A t \in Setups : setupAt'[t] \in Profile!Saving => setupAt[t] \in Profile!Saving
    BY <1>a DEF Profile!Saving
  <2>2. \A t \in Setups : HeldInv(t)' <=> HeldInv(t)
    BY DEF HeldInv, FirstNames, Profile!StoredNames, Profile!IsLatest
  <2> QED BY <2>1, <2>2 DEF SavingInv
<1>4. ReadyInv'
  <2>1. ~ Profile!NobodyWrites'
    BY <1>a DEF Profile!NobodyWrites
  <2> QED BY <2>1 DEF ReadyInv, Profile!SerialProfileIsExact
<1> QED BY <1>1, <1>2, <1>3, <1>4

LEMMA ProfileWrite ==
  ASSUME ProfileInv, NEW s \in Setups, Profile!Write(s)
  PROVE  ProfileInv'
<1> USE DEF ProfileInv, Profile!Write
<1>a. setupAt' = [setupAt EXCEPT ![s] = "saved"] /\ DOMAIN setupAt = Setups /\ setupAt[s] \in Profile!Saving
  BY DEF ProfileTypes, Profile!Saving
<1>b. wants[s] \in Profile!Entries /\ wants[s].name \in ProviderNames
  BY DEF WantsInv
<1>c. stored \in Seq(Profile!Entries)
  BY DEF ProfileTypes
<1>d. /\ stored' \in Seq(Profile!Entries) /\ stored' # <<>> /\ Last(stored') = wants[s]
      /\ Profile!StoredNames' = Profile!StoredNames \cup {wants[s].name}
      /\ Profile!IsLatest(wants[s])'
      /\ \A e : Profile!IsLatest(e) /\ e.name # wants[s].name => Profile!IsLatest(e)'
  <2>1. PICK w \in Profile!Entries : w = wants[s]
    BY <1>b
  <2> QED BY <1>c, <2>1, LatestOfMore
<1>1. ProfileTypes'
  <2>1. profile' \in Profile!Files \cup Profile!Unreadable
    BY DEF ProfileTypes, Profile!Unreadable
  <2> QED BY <1>a, <1>d, <2>1 DEF ProfileTypes, Places
<1>2. WantsInv'
  <2>1. \A i \in DOMAIN stored' : stored'[i].name \in ProviderNames
    <3>1. \A i \in DOMAIN stored' : stored'[i].name \in Profile!StoredNames'
      BY DEF Profile!StoredNames
    <3>2. \A n \in Profile!StoredNames : n \in ProviderNames
      BY DEF WantsInv, Profile!StoredNames
    <3> QED BY <1>b, <1>d, <3>1, <3>2
  <2> QED BY <1>a, <1>b, <2>1 DEF WantsInv
<1>3. SavingInv'
  <2>1. SUFFICES ASSUME serial PROVE \A t \in Setups : setupAt'[t] \notin Profile!Saving
    BY DEF SavingInv, Profile!Saving
  <2>2. \A t \in Setups : setupAt[t] \in Profile!Saving => t = s
    BY <1>a, <2>1 DEF SavingInv
  <2> QED BY <1>a, <2>2 DEF Profile!Saving
<1>4. ReadyInv'
  <2>1. SUFFICES ASSUME serial
                 PROVE  /\ profile' \in Profile!Files /\ profile'.default = wants[s].name
                        /\ \A e \in profile'.providers : e.name \in Profile!StoredNames' => Profile!IsLatest(e)'
                        /\ Profile!NamesOf(profile'.providers) = Profile!StoredNames' \cup FirstNames
    <3>1. first' = first /\ (serial' => serial)
      BY DEF ProfileTypes
    <3>2. stored' # <<>> /\ Last(stored') = wants[s]
      BY <1>d
    <3> HIDE DEF Profile!Write
    <3>3. SUFFICES ASSUME serial'
                   PROVE  /\ profile' \in Profile!Files /\ profile'.default = Last(stored').name
                          /\ \A e \in profile'.providers : e.name \in Profile!StoredNames' => Profile!IsLatest(e)'
                          /\ Profile!NamesOf(profile'.providers) =
                               Profile!StoredNames' \cup (IF first' = Absent THEN {} ELSE Profile!NamesOf(first'.providers))
      BY <3>2 DEF ReadyInv, Profile!SerialProfileIsExact, Profile!Last, Last
    <3> QED BY <3>1, <3>2, <3>3 DEF FirstNames
  <2>2. profile' = held[s] /\ HeldInv(s)
    BY <1>a, <2>1 DEF SavingInv
  <2>3. held[s] \in Profile!Files
    BY DEF ProfileTypes
  <2>4. ASSUME NEW e \in held[s].providers, e.name \in Profile!StoredNames' PROVE Profile!IsLatest(e)'
    <3>1. CASE e.name = wants[s].name
      BY <1>d, <2>2, <3>1 DEF HeldInv
    <3>2. CASE e.name # wants[s].name
      BY <1>d, <2>2, <2>4, <3>2 DEF HeldInv
    <3> QED BY <3>1, <3>2
  <2>5. Profile!NamesOf(held[s].providers) = Profile!StoredNames' \cup FirstNames
    BY <1>d, <2>2 DEF HeldInv
  <2> QED BY <2>2, <2>3, <2>4, <2>5 DEF HeldInv
<1> QED BY <1>1, <1>2, <1>3, <1>4

LEMMA ProfileCutWrite ==
  ASSUME ProfileInv, NEW s \in Setups, Profile!CutWrite(s)
  PROVE  ProfileInv'
<1> USE DEF ProfileInv, Profile!CutWrite
<1>a. DOMAIN setupAt = Setups /\ setupAt'[s] \in {"failed", "killed"} /\ \A t \in Setups \ {s} : setupAt'[t] = setupAt[t]
  BY DEF ProfileTypes
<1>1. ProfileTypes'
  <2>1. setupAt' \in [Setups -> Places]
    BY DEF ProfileTypes, Places
  <2>2. profile' \in Profile!Files \cup Profile!Unreadable
    BY DEF ProfileTypes, Profile!Unreadable
  <2> QED BY <2>1, <2>2 DEF ProfileTypes
<1>2. WantsInv'
  <2>1. generated[s] = Absent
    BY DEF WantsInv
  <2> QED BY <1>a, <2>1 DEF WantsInv
<1>3. SavingInv' /\ ReadyInv'
  BY DEF SavingInv, ReadyInv, Profile!SerialProfileIsExact
<1> QED BY <1>1, <1>2, <1>3

LEMMA ProfileStep ==
  ASSUME ProfileInv, [Profile!Next]_profileVars
  PROVE  ProfileInv'
<1>1. CASE UNCHANGED profileVars
  BY <1>1 DEF profileVars, ProfileInv, ProfileTypes, WantsInv, SavingInv, HeldInv, FirstNames, ReadyInv,
    Profile!SerialProfileIsExact, Profile!StoredNames, Profile!IsLatest, Profile!NobodyWrites
<1>2. CASE Profile!Next
  <2>1. PICK s \in Setups :
          \/ Profile!Ask(s) \/ Profile!TakeDefault(s) \/ Profile!Load(s) \/ Profile!Truncate(s) \/ Profile!Write(s)
          \/ Profile!CutWrite(s) \/ Profile!WriteConfig(s) \/ Profile!Stop(s)
    BY <1>2 DEF Profile!Next
  <2> QED BY <2>1, ProfileAsk, ProfileTakeDefault, ProfileLoad, ProfileTruncate, ProfileWrite, ProfileCutWrite,
             ProfileWriteConfig, ProfileStop
<1> QED BY <1>1, <1>2

\* A run finds the key of the last setup of its provider.
LEMMA ProfileFindsItsKey ==
  ASSUME ProfileInv
  PROVE  Profile!ConfigFindsItsKey
<1> USE DEF ProfileInv
<1>1. SUFFICES ASSUME serial, Profile!NobodyWrites, NEW s \in Setups,
                      generated[s] # Absent, wants[s].key = s, Profile!IsLatest(wants[s])
               PROVE  Profile!LookupAPIKey(profile, generated[s].provider, generated[s].env) = {s}
  BY DEF Profile!ConfigFindsItsKey
<1>2. generated[s].provider = wants[s].name /\ generated[s].env = wants[s].env
  <2>1. generated[s] = [provider |-> wants[s].name, env |-> wants[s].env]
    BY <1>1 DEF WantsInv
  <2> QED BY <2>1
<1>3. stored # <<>> /\ wants[s].name \in Profile!StoredNames /\ stored \in Seq(Profile!Entries)
  BY <1>1 DEF Profile!IsLatest, Profile!StoredNames, ProfileTypes
<1>4. /\ profile \in Profile!Files
      /\ \A e \in profile.providers : e.name \in Profile!StoredNames => Profile!IsLatest(e)
      /\ wants[s].name \in Profile!NamesOf(profile.providers)
  BY <1>1, <1>3 DEF ReadyInv, Profile!SerialProfileIsExact
<1>5. ASSUME NEW read \in Profile!normalizeFile(profile)
      PROVE  {e \in read.providers : e.name = wants[s].name /\ (e.env = Absent \/ e.env = wants[s].env)} = {wants[s]}
  <2>1. read.providers \subseteq profile.providers /\ wants[s].name \in Profile!NamesOf(read.providers)
    BY <1>4, ReadIsAFile
  <2>2. \A e \in read.providers : e.name = wants[s].name => e = wants[s]
    BY <1>1, <1>3, <1>4, <2>1, OneIsLatest
  <2>3. wants[s] \in read.providers
    BY <2>1, <2>2 DEF Profile!NamesOf
  <2> QED BY <2>2, <2>3
<1>6. profile \notin Profile!Unreadable /\ Profile!normalizeFile(profile) # {}
  BY <1>4, ProfileFacts, CanBeRead
<1>7. \A e : (CHOOSE d \in {e} : TRUE) = e
  OBVIOUS
<1> QED BY <1>1, <1>2, <1>5, <1>6, <1>7 DEF Profile!LookupAPIKey

\* Only a setup that was reading or writing already replaces what does not
\* decode.
LEMMA ProfileIsLeft ==
  ASSUME ProfileInv, Profile!Next, profile \in {Garbage, Empty}, \A s \in Setups : setupAt[s] \notin Profile!Saving
  PROVE  profile' = profile /\ \A s \in Setups : setupAt'[s] # "loaded"
<1>1. PICK s \in Setups :
        \/ Profile!Ask(s) \/ Profile!TakeDefault(s) \/ Profile!Load(s) \/ Profile!Truncate(s) \/ Profile!Write(s)
        \/ Profile!CutWrite(s) \/ Profile!WriteConfig(s) \/ Profile!Stop(s)
  BY DEF Profile!Next
<1>2. ~ Profile!Load(s)
  BY ProfileFacts DEF Profile!Load, Profile!LoadOrCreate, Profile!Unreadable
<1>3. ~ Profile!Truncate(s) /\ ~ Profile!Write(s) /\ ~ Profile!CutWrite(s)
  BY DEF Profile!Truncate, Profile!Write, Profile!CutWrite, Profile!Saving
<1>4. profile' = profile
  BY <1>1, <1>2, <1>3 DEF Profile!Ask, Profile!TakeDefault, Profile!WriteConfig, Profile!Stop
<1>5. setupAt'[s] # "loaded" /\ \A t \in Setups \ {s} : setupAt'[t] = setupAt[t]
  BY <1>1, <1>2, <1>3 DEF Profile!Ask, Profile!TakeDefault, Profile!WriteConfig, Profile!Stop, ProfileInv, ProfileTypes
<1> QED BY <1>4, <1>5 DEF Profile!Saving

-----------------------------------------------------------------------------
\* The steps of the project that are about the profile.
LEMMA ProjectProfile ==
  /\ ProjectInit => Profile!Init
  /\ [ProjectNext]_all => [Profile!Next]_profileVars
<1>1. ProjectInit => Profile!Init
  BY DEF ProjectInit
<1>2. UNCHANGED all => UNCHANGED profileVars
  BY DEF all
<1>3. ProjectNext => Profile!Next \/ UNCHANGED profileVars
  BY DEF ProjectNext
<1> QED BY <1>1, <1>2, <1>3

\* For any setups, names and profiles written by hand: setups that do not
\* overlap leave the latest provider of each name and lose none, a generated
\* configuration finds the key it was set up with, and a profile that does not
\* decode is replaced only by a setup that was at it already (UpsertProvider,
\* LookupAPIKey, LoadOrCreate).
THEOREM ProjectProfileIsExact == ProjectSpec => ProfileIsExact
<1>1. ProjectInit => ProfileInv
  BY ProjectProfile, ProfileStarts
<1>2. ProfileInv /\ [ProjectNext]_all => ProfileInv'
  BY ProjectProfile, ProfileStep
<1>3. ProfileInv => (about = "profile" => Profile!SerialProfileIsExact /\ Profile!ConfigFindsItsKey)
  BY ProfileFindsItsKey DEF ProfileInv, ReadyInv
<1>4. ProfileInv /\ [ProjectNext]_all =>
        [(profile \in {Garbage, Empty}) /\ (\A s \in Setups : setupAt[s] \notin Profile!Saving) =>
           (profile' = profile /\ \A s \in Setups : setupAt'[s] # "loaded")]_Profile!vars
  <2>1. UNCHANGED profileVars => UNCHANGED Profile!vars
    BY DEF profileVars, Profile!vars
  <2> QED BY <2>1, ProjectProfile, ProfileIsLeft
<1> QED BY <1>1, <1>2, <1>3, <1>4, PTL DEF ProjectSpec, ProfileIsExact, Profile!UnreadableIsKept

-----------------------------------------------------------------------------
(***************************************************************************)
(* The sync.  A run that fails leaves files, a branch and staged changes        *)
(* behind; whatever it has left, the files a later run commits are those that   *)
(* it has written itself.                                                       *)
(***************************************************************************)
SyncFiles == {"insights", "dataset", "config"}

SyncTypes ==
  /\ remote \in Seq(Sync!Experiments) /\ order \in Orders /\ syncAt \in Nat
  /\ syncFiles = [which \in SyncFiles |-> syncFiles[which]]
  /\ repo = [branch |-> repo.branch, heads |-> repo.heads, staged |-> repo.staged, published |-> repo.published]
  /\ repo.heads = [b \in DOMAIN repo.heads |-> repo.heads[b]] /\ {"main", repo.branch} \subseteq DOMAIN repo.heads
  /\ \E commits : repo.published \in Seq(commits)

\* What a run works with is the experiment it has stopped at.
FetchedInv ==
  /\ syncStage = "fetch" => syncAt >= 1
  /\ syncStage \in {"insights", "dataset", "config", "checkout", "add", "commit", "request"} =>
       syncAt \in DOMAIN remote /\ fetched = Sync!FetchInsights(remote[syncAt])

\* Files of a run: those that came before the stage it is at, as they are on
\* disk, are of this run.
OfThisRun(commit) ==
  /\ commit["insights"] = <<runs, fetched>>
  /\ fetched.scenarios.there /\ order.dataset => commit["dataset"] = <<runs, fetched.scenarios>>
  /\ commit["config"] = <<runs, Sync!ApplyBraintrustInsightDataset(SyncBase, fetched, order)>>

WrittenInv ==
  /\ syncStage \in {"dataset", "config", "checkout", "add"} =>
       "insights" \in written /\ syncFiles["insights"] = <<runs, fetched>>
  /\ syncStage \in {"config", "checkout", "add"} /\ fetched.scenarios.there /\ order.dataset =>
       "dataset" \in written /\ syncFiles["dataset"] = <<runs, fetched.scenarios>>
  /\ syncStage \in {"checkout", "add"} =>
       /\ "config" \in written
       /\ syncFiles["config"] = <<runs, Sync!ApplyBraintrustInsightDataset(SyncBase, fetched, order)>>
  /\ syncStage = "commit" => OfThisRun(repo.staged)
  /\ syncStage = "request" => OfThisRun(repo.heads[repo.branch])

SyncInv == SyncTypes /\ FetchedInv /\ WrittenInv

LEMMA SyncStarts ==
  ASSUME Sync!Init
  PROVE  SyncInv
<1> USE DEF Sync!Init
<1>1. remote \in Seq(Sync!Experiments)
  BY ProjectAssumption DEF Sync!SyncAssumption
<1>2. repo.published \in Seq({})
  OBVIOUS
<1>3. SyncTypes
  BY <1>1, <1>2 DEF SyncTypes, SyncFiles
<1> QED BY <1>3 DEF SyncInv, FetchedInv, WrittenInv

\* The experiments that are asked for are the first of those there are.
LEMMA ListedIsThere ==
  ASSUME SyncTypes, syncAt <= Len(Sync!ListExperiments(Sync!resolveBraintrustSyncSource(order))), syncAt >= 1
  PROVE  /\ syncAt \in DOMAIN remote
         /\ Sync!ListExperiments(Sync!resolveBraintrustSyncSource(order))[syncAt] = remote[syncAt]
<1> DEFINE source_ == Sync!resolveBraintrustSyncSource(order)
           limit == IF source_.limit <= 0 THEN 10 ELSE source_.limit
           n == Sync!Min({limit, Len(remote)})
<1>1. source_.limit \in Int
  BY ProjectAssumption DEF Sync!SyncAssumption, Sync!resolveBraintrustSyncSource, SyncTypes
<1>2. limit \in Nat \ {0} /\ Len(remote) \in Nat
  BY <1>1 DEF SyncTypes
<1>3. n \in {limit, Len(remote)} /\ n <= Len(remote)
  <2> HIDE DEF limit
  <2>1. \E x \in {limit, Len(remote)} : \A y \in {limit, Len(remote)} : x <= y
    BY <1>2
  <2> QED BY <1>2, <2>1 DEF Sync!Min
<1>4. Sync!ListExperiments(source_) = SubSeq(remote, 1, n)
  BY DEF Sync!ListExperiments
<1> HIDE DEF n, source_
<1>5. n \in Nat /\ n <= Len(remote) /\ remote \in Seq(Sync!Experiments) /\ syncAt \in Nat
  BY <1>2, <1>3 DEF SyncTypes
<1>6. Len(SubSeq(remote, 1, n)) = n /\ \A i \in 1 .. n : SubSeq(remote, 1, n)[i] = remote[i]
  BY <1>5
<1>7. syncAt \in 1 .. n
  BY <1>4, <1>5, <1>6 DEF source_
<1> QED BY <1>4, <1>5, <1>6, <1>7 DEF source_

LEMMA SyncCommandGiven ==
  ASSUME SyncInv, Sync!syncBraintrustCmd
  PROVE  SyncInv'
<1> USE DEF SyncInv, Sync!syncBraintrustCmd
<1>1. SyncTypes'
  BY DEF SyncTypes
<1>2. syncStage' \in {"fetch", "idle"}
  BY DEF Sync!End
<1>3. FetchedInv' /\ WrittenInv'
  BY <1>2 DEF FetchedInv, WrittenInv
<1> QED BY <1>1, <1>3

LEMMA SyncLoads ==
  ASSUME SyncInv, Sync!LoadBraintrustSyncArtifacts
  PROVE  SyncInv'
<1> USE DEF SyncInv, Sync!LoadBraintrustSyncArtifacts, Sync!Given, Sync!Go, Sync!End
<1> DEFINE listed == Sync!ListExperiments(Sync!resolveBraintrustSyncSource(order))
<1>0. syncAt >= 1 /\ syncAt \in Nat
  BY DEF FetchedInv, SyncTypes
<1>a. \/ syncStage' = "idle" /\ syncAt' = syncAt
      \/ syncStage' = "fetch" /\ syncAt' = syncAt + 1
      \/ /\ syncStage' = "insights" /\ syncAt' = syncAt /\ syncAt <= Len(listed)
         /\ fetched' = Sync!FetchInsights(listed[syncAt])
  OBVIOUS
<1> HIDE DEF listed
<1>1. SyncTypes'
  <2>1. syncAt' \in Nat
    BY <1>0, <1>a
  <2> QED BY <2>1 DEF SyncTypes
<1>2. FetchedInv'
  <2>1. CASE syncStage' \in {"idle", "fetch"}
    BY <1>0, <1>a, <2>1 DEF FetchedInv
  <2>2. CASE syncStage' = "insights"
    <3>1. syncAt' = syncAt /\ syncAt \in DOMAIN remote /\ fetched' = Sync!FetchInsights(remote[syncAt])
      BY <1>0, <1>a, <2>2, ListedIsThere DEF listed
    <3> QED BY <2>2, <3>1 DEF FetchedInv
  <2> QED BY <1>a, <2>1, <2>2
<1>3. WrittenInv'
  <2>1. syncStage' \in {"idle", "fetch", "insights"}
    BY <1>a
  <2> QED BY <2>1 DEF WrittenInv
<1> QED BY <1>1, <1>2, <1>3

\* A file that is written has the content and is among the written ones; the
\* others stay.
LEMMA WriteOne ==
  ASSUME SyncTypes, NEW which \in SyncFiles, NEW content, Sync!Write(which, content)
  PROVE  /\ syncFiles' = [other \in SyncFiles |-> syncFiles'[other]]
         /\ syncFiles'[which] = <<runs, content>> /\ which \in written'
         /\ \A other \in SyncFiles \ {which} :
              syncFiles'[other] = syncFiles[other] /\ (other \in written => other \in written')
BY DEF SyncTypes, Sync!Write

LEMMA SyncWritesInsights ==
  ASSUME SyncInv, Sync!WriteInsights
  PROVE  SyncInv'
<1> USE DEF SyncInv, Sync!WriteInsights, Sync!Given, Sync!Go, Sync!End
<1>1. CASE syncStage' = "idle"
  <2>1. syncFiles' = [which \in SyncFiles |-> syncFiles'[which]]
    BY WriteOne DEF SyncTypes, SyncFiles
  <2>2. SyncTypes'
    BY <2>1 DEF SyncTypes
  <2> QED BY <1>1, <2>2 DEF FetchedInv, WrittenInv
<1>2. CASE syncStage' # "idle"
  <2>1. /\ Sync!Write("insights", fetched) /\ syncStage' \in {"dataset", "config"}
        /\ syncStage' = "config" => ~ (order.dataset /\ fetched.scenarios.there)
    BY <1>2
  <2>2. /\ syncFiles' = [which \in SyncFiles |-> syncFiles'[which]]
        /\ syncFiles'["insights"] = <<runs, fetched>> /\ "insights" \in written'
    BY <2>1, WriteOne DEF SyncFiles
  <2>3. SyncTypes'
    BY <2>2 DEF SyncTypes
  <2>4. FetchedInv'
    BY <2>1 DEF FetchedInv
  <2> QED BY <2>1, <2>2, <2>3, <2>4 DEF WrittenInv
<1> QED BY <1>1, <1>2

LEMMA SyncWritesDataset ==
  ASSUME SyncInv, Sync!WriteDataset
  PROVE  SyncInv'
<1> USE DEF SyncInv, Sync!WriteDataset, Sync!Given, Sync!Go, Sync!End
<1>1. CASE syncStage' = "idle"
  <2>1. syncFiles' = [which \in SyncFiles |-> syncFiles'[which]]
    BY WriteOne DEF SyncTypes, SyncFiles
  <2>2. SyncTypes'
    BY <2>1 DEF SyncTypes
  <2> QED BY <1>1, <2>2 DEF FetchedInv, WrittenInv
<1>2. CASE syncStage' # "idle"
  <2>1. Sync!Write("dataset", fetched.scenarios) /\ syncStage' = "config"
    BY <1>2
  <2>2. /\ syncFiles' = [which \in SyncFiles |-> syncFiles'[which]]
        /\ syncFiles'["dataset"] = <<runs, fetched.scenarios>> /\ "dataset" \in written'
        /\ syncFiles'["insights"] = syncFiles["insights"] /\ ("insights" \in written => "insights" \in written')
    <3>1. PICK content : content = fetched.scenarios
      OBVIOUS
    <3> QED BY <2>1, <3>1, WriteOne DEF SyncFiles
  <2>3. SyncTypes'
    BY <2>2 DEF SyncTypes
  <2>4. FetchedInv'
    BY <2>1 DEF FetchedInv
  <2> QED BY <2>1, <2>2, <2>3, <2>4 DEF WrittenInv
<1> QED BY <1>1, <1>2

LEMMA SyncWritesConfig ==
  ASSUME SyncInv, Sync!WriteConfig
  PROVE  SyncInv'
<1> DEFINE merged == Sync!ApplyBraintrustInsightDataset(SyncBase, fetched, order)
<1> USE DEF SyncInv, Sync!Given
<1>a. /\ syncStage = "config" /\ UNCHANGED <<remote, order, runs, syncAt, fetched, repo>>
      /\ \/ syncStage' = "idle" /\ UNCHANGED syncFiles
         \/ Sync!Write("config", merged) /\ syncStage' \in {"checkout", "idle"}
  BY DEF Sync!WriteConfig, Sync!Go, Sync!End
<1> HIDE DEF merged
<1>1. SyncTypes'
  <2>1. syncFiles' = [which \in SyncFiles |-> syncFiles'[which]]
    BY <1>a, WriteOne DEF SyncTypes, SyncFiles
  <2> QED BY <1>a, <2>1 DEF SyncTypes
<1>2. FetchedInv'
  BY <1>a DEF FetchedInv
<1>3. WrittenInv'
  <2>1. CASE syncStage' = "idle"
    BY <2>1 DEF WrittenInv
  <2>2. CASE syncStage' # "idle"
    <3>1. Sync!Write("config", merged) /\ syncStage' = "checkout"
      BY <1>a, <2>2
    <3>2. /\ syncFiles'["config"] = <<runs, merged>> /\ "config" \in written'
          /\ \A other \in {"insights", "dataset"} :
               syncFiles'[other] = syncFiles[other] /\ (other \in written => other \in written')
      BY <3>1, WriteOne DEF SyncFiles
    <3>3. merged' = merged
      BY <1>a DEF merged
    <3>4. syncFiles'["config"] = <<runs', merged'>>
      BY <1>a, <3>2, <3>3
    <3> QED BY <1>a, <3>1, <3>2, <3>4 DEF WrittenInv, merged
  <2> QED BY <2>1, <2>2
<1> QED BY <1>1, <1>2, <1>3

LEMMA SyncChecksOut ==
  ASSUME SyncInv, Sync!Checkout
  PROVE  SyncInv'
<1> USE DEF SyncInv, Sync!Given
<1> DEFINE branched == [b \in DOMAIN repo.heads \cup {order.branch} |->
                        IF b = order.branch THEN repo.heads[repo.branch] ELSE repo.heads[b]]
<1>a. /\ syncStage = "checkout" /\ UNCHANGED <<remote, order, runs, syncAt, fetched, syncFiles, written>>
      /\ \/ syncStage' = "idle" /\ UNCHANGED repo
         \/ /\ syncStage' = "add"
            /\ repo' = [repo EXCEPT !.branch = order.branch, !.heads = branched]
  BY DEF Sync!Checkout, Sync!Go, Sync!End
<1>1. SyncTypes'
  <2>1. CASE UNCHANGED repo
    BY <1>a, <2>1 DEF SyncTypes
  <2>2. CASE repo' = [repo EXCEPT !.branch = order.branch, !.heads = branched]
    <3>1. /\ repo' = [branch |-> repo'.branch, heads |-> repo'.heads, staged |-> repo'.staged, published |-> repo'.published]
          /\ repo'.branch = order.branch /\ repo'.published = repo.published
          /\ repo'.heads = branched
      BY <2>2 DEF SyncTypes
    <3>2. /\ repo'.heads = [b \in DOMAIN repo'.heads |-> repo'.heads[b]]
          /\ {"main", repo'.branch} \subseteq DOMAIN repo'.heads
      BY <3>1 DEF SyncTypes
    <3> QED BY <1>a, <3>1, <3>2 DEF SyncTypes
  <2> QED BY <1>a, <2>1, <2>2
<1>2. FetchedInv'
  BY <1>a DEF FetchedInv
<1>3. WrittenInv'
  BY <1>a DEF WrittenInv
<1> QED BY <1>1, <1>2, <1>3

LEMMA SyncAdds ==
  ASSUME SyncInv, Sync!Add
  PROVE  SyncInv'
<1> USE DEF SyncInv, Sync!Given
<1> DEFINE added == [which \in DOMAIN syncFiles |-> IF which \in written THEN syncFiles[which] ELSE repo.staged[which]]
<1>a. /\ syncStage = "add" /\ UNCHANGED <<remote, order, runs, syncAt, fetched, syncFiles, written>>
      /\ \/ syncStage' = "idle" /\ UNCHANGED repo
         \/ syncStage' = "commit" /\ repo' = [repo EXCEPT !.staged = added]
  BY DEF Sync!Add, Sync!Go, Sync!End
<1> HIDE DEF added
<1>1. SyncTypes'
  BY <1>a DEF SyncTypes
<1>2. FetchedInv'
  BY <1>a DEF FetchedInv
<1>3. WrittenInv'
  <2>1. SUFFICES ASSUME syncStage' = "commit" PROVE OfThisRun(repo'.staged)
    BY <1>a DEF WrittenInv, OfThisRun
  <2>2. repo'.staged = added
    BY <1>a, <2>1 DEF SyncTypes
  <2>3. \A which \in SyncFiles : which \in written => added[which] = syncFiles[which]
    BY DEF added, SyncTypes
  <2>4. OfThisRun(added)
    BY <1>a, <2>3 DEF WrittenInv, OfThisRun, SyncFiles
  <2> QED BY <2>2, <2>4
<1> QED BY <1>1, <1>2, <1>3

LEMMA SyncCommits ==
  ASSUME SyncInv, Sync!Commit
  PROVE  SyncInv'
<1> USE DEF SyncInv, Sync!Given
<1>a. /\ syncStage = "commit" /\ UNCHANGED <<remote, order, runs, syncAt, fetched, syncFiles, written>>
      /\ \/ syncStage' = "idle" /\ UNCHANGED repo
         \/ syncStage' = "request" /\ repo' = [repo EXCEPT !.heads[repo.branch] = repo.staged]
  BY DEF Sync!Commit, Sync!Go, Sync!End
<1>1. SyncTypes'
  BY <1>a DEF SyncTypes
<1>2. FetchedInv'
  BY <1>a DEF FetchedInv
<1>3. WrittenInv'
  <2>1. SUFFICES ASSUME syncStage' = "request" PROVE OfThisRun(repo'.heads[repo'.branch])
    BY <1>a DEF WrittenInv, OfThisRun
  <2>2. repo'.heads[repo'.branch] = repo.staged
    BY <1>a, <2>1 DEF SyncTypes
  <2>3. OfThisRun(repo.staged)
    BY <1>a DEF WrittenInv
  <2> QED BY <2>2, <2>3
<1> QED BY <1>1, <1>2, <1>3

\* What a pull request publishes.
LEMMA SyncPublishes ==
  ASSUME SyncInv, Sync!CreatePullRequest
  PROVE  SyncInv' /\ (repo'.published # repo.published => OfThisRun(Last(repo'.published)))
<1> USE DEF SyncInv, Sync!Given
<1> DEFINE head == repo.heads[repo.branch]
<1>a. /\ syncStage = "request" /\ syncStage' = "idle"
      /\ UNCHANGED <<remote, order, runs, syncAt, fetched, syncFiles, written>>
      /\ UNCHANGED repo \/ repo' = [repo EXCEPT !.published = Append(@, head)]
  BY DEF Sync!CreatePullRequest, Sync!Go, Sync!End
<1> HIDE DEF head
<1>1. CASE UNCHANGED repo
  BY <1>a, <1>1 DEF SyncTypes, FetchedInv, WrittenInv
<1>2. CASE repo' = [repo EXCEPT !.published = Append(@, head)]
  <2>1. PICK commits : repo.published \in Seq(commits)
    BY DEF SyncTypes
  <2>2. PICK more : more = commits \cup {head}
    OBVIOUS
  <2>3. repo.published \in Seq(more) /\ head \in more
    BY <2>1, <2>2
  <2>4. repo'.published = Append(repo.published, head)
    BY <1>2 DEF SyncTypes
  <2>5. repo'.published \in Seq(more) /\ Last(repo'.published) = head
    BY <2>3, <2>4 DEF Last
  <2>6. SyncTypes'
    BY <1>a, <1>2, <2>5 DEF SyncTypes
  <2>7. OfThisRun(head)
    BY <1>a DEF WrittenInv, head
  <2> QED BY <1>a, <2>5, <2>6, <2>7 DEF FetchedInv, WrittenInv
<1> QED BY <1>a, <1>1, <1>2

LEMMA SyncGoesBack ==
  ASSUME SyncInv, Sync!BackToMain
  PROVE  SyncInv'
<1> USE DEF SyncInv
<1>a. /\ syncStage = "idle" /\ UNCHANGED <<remote, order, runs, syncStage, syncAt, fetched, written>>
      /\ syncFiles' = [which \in DOMAIN syncFiles |-> syncFiles'[which]]
      /\ \E staged : repo' = [repo EXCEPT !.branch = "main", !.staged = staged]
  BY DEF Sync!BackToMain
<1>1. SyncTypes'
  BY <1>a DEF SyncTypes
<1>2. FetchedInv' /\ WrittenInv'
  BY <1>a DEF FetchedInv, WrittenInv
<1> QED BY <1>1, <1>2

LEMMA SyncHasMore ==
  ASSUME SyncInv, Sync!NewExperiment
  PROVE  SyncInv'
<1> USE DEF SyncInv
<1>a. /\ syncStage = "idle" /\ UNCHANGED <<order, runs, syncStage, syncAt, fetched, syncFiles, written, repo>>
      /\ \E r \in Remotes : remote' = r \o remote
  BY DEF Sync!NewExperiment
<1>1. remote' \in Seq(Sync!Experiments)
  <2>1. PICK r \in Remotes : remote' = r \o remote
    BY <1>a
  <2>2. r \in Seq(Sync!Experiments) /\ remote \in Seq(Sync!Experiments)
    BY ProjectAssumption DEF Sync!SyncAssumption, SyncTypes
  <2> QED BY <2>1, <2>2
<1>2. SyncTypes'
  BY <1>a, <1>1 DEF SyncTypes
<1>3. FetchedInv' /\ WrittenInv'
  BY <1>a DEF FetchedInv, WrittenInv
<1> QED BY <1>2, <1>3

LEMMA SyncStays ==
  ASSUME SyncInv, UNCHANGED syncVars
  PROVE  SyncInv'
<1> USE DEF SyncInv, syncVars
<1>1. SyncTypes'
  BY DEF SyncTypes
<1>2. FetchedInv'
  BY DEF FetchedInv
<1>3. WrittenInv'
  BY DEF WrittenInv, OfThisRun
<1> QED BY <1>1, <1>2, <1>3

LEMMA SyncStep ==
  ASSUME SyncInv, Sync!Next \/ UNCHANGED syncVars
  PROVE  SyncInv'
<1>1. CASE UNCHANGED syncVars
  BY <1>1, SyncStays
<1>2. CASE Sync!Stop
  BY <1>2, SyncStays DEF Sync!Stop, Sync!vars, syncVars
<1>3. CASE Sync!CreatePullRequest
  BY <1>3, SyncPublishes
<1>4. CASE Sync!syncBraintrustCmd \/ Sync!LoadBraintrustSyncArtifacts
  BY <1>4, SyncCommandGiven, SyncLoads
<1>5. CASE Sync!WriteInsights \/ Sync!WriteDataset \/ Sync!WriteConfig
  BY <1>5, SyncWritesInsights, SyncWritesDataset, SyncWritesConfig
<1>6. CASE Sync!Checkout \/ Sync!Add \/ Sync!Commit
  BY <1>6, SyncChecksOut, SyncAdds, SyncCommits
<1>7. CASE Sync!BackToMain \/ Sync!NewExperiment
  BY <1>7, SyncGoesBack, SyncHasMore
<1> QED BY <1>1, <1>2, <1>3, <1>4, <1>5, <1>6, <1>7 DEF Sync!Next

\* Only the pull request publishes, and it neither fetches nor is given again.
LEMMA PublishedByTheRequest ==
  ASSUME SyncInv, Sync!Next, repo'.published # repo.published
  PROVE  Sync!CreatePullRequest
<1>1. CASE Sync!syncBraintrustCmd \/ Sync!LoadBraintrustSyncArtifacts \/ Sync!NewExperiment \/ Sync!Stop
  BY <1>1 DEF Sync!syncBraintrustCmd, Sync!LoadBraintrustSyncArtifacts, Sync!NewExperiment, Sync!Stop, Sync!vars
<1>2. CASE Sync!WriteInsights \/ Sync!WriteDataset \/ Sync!WriteConfig
  BY <1>2 DEF Sync!WriteInsights, Sync!WriteDataset, Sync!WriteConfig
<1>3. CASE Sync!Checkout
  BY <1>3 DEF Sync!Checkout, SyncInv, SyncTypes
<1>4. CASE Sync!Add \/ Sync!Commit
  BY <1>4 DEF Sync!Add, Sync!Commit, SyncInv, SyncTypes
<1>5. CASE Sync!BackToMain
  BY <1>5 DEF Sync!BackToMain, SyncInv, SyncTypes
<1> QED BY <1>1, <1>2, <1>3, <1>4, <1>5 DEF Sync!Next

LEMMA StepPublishesThisRun ==
  ASSUME SyncInv, Sync!Next, repo'.published # repo.published
  PROVE  LET commit == Sync!Last(repo'.published)
         IN  /\ commit.insights = <<runs, fetched>>
             /\ fetched.scenarios.there /\ order.dataset => commit.dataset = <<runs, fetched.scenarios>>
             /\ commit.config = <<runs, Sync!ApplyBraintrustInsightDataset(SyncBase, fetched, order)>>
<1>1. OfThisRun(Last(repo'.published))
  BY PublishedByTheRequest, SyncPublishes
<1>2. PICK commit : commit = Last(repo'.published)
  OBVIOUS
<1>3. Sync!Last(repo'.published) = commit
  BY <1>2 DEF Sync!Last, Last
<1>4. OfThisRun(commit)
  BY <1>1, <1>2
<1> QED BY <1>3, <1>4 DEF OfThisRun

\* The parts of an experiment keep their review flag in what is fetched.
LEMMA FetchedKeepsReview ==
  ASSUME NEW experiment \in Sync!Experiments,
         experiment.review \/ experiment.scenarios.review \/ experiment.patch.review
  PROVE  Sync!requiresReview(Sync!FetchInsights(experiment))
<1> DEFINE exported == IF experiment.replay.there
                       THEN Sync!Present(FALSE, Sync!Scenarios(Sync!ExportScenarioDataset(SyncBase.scenarios, experiment.replay.items, FALSE)))
                       ELSE Sync!NotThere
           merged == Sync!mergeScenarioDatasets(exported, experiment.scenarios)
<1>1. Sync!FetchInsights(experiment) = [review |-> experiment.review, scenarios |-> merged, patch |-> experiment.patch]
  BY DEF Sync!FetchInsights
<1> HIDE DEF exported
<1>2. experiment.scenarios.review => merged.review
  <2>1. SUFFICES ASSUME experiment.scenarios.review PROVE merged.review
    OBVIOUS
  <2>2. experiment.scenarios.there
    BY <2>1, ProjectAssumption DEF Sync!SyncAssumption
  <2> QED BY <2>1, <2>2 DEF Sync!mergeScenarioDatasets, Sync!Present
<1> HIDE DEF merged
<1> QED BY <1>1, <1>2 DEF Sync!requiresReview

\* A configuration is written by the step that applies the insights to it, and
\* that applies none that need a review to a run without an approval.
LEMMA StepAppliesReviewed ==
  ASSUME SyncInv, Sync!Next, syncStage = "config", syncFiles'.config # syncFiles.config, ~order.approved
  PROVE  ~ (remote[syncAt].review \/ remote[syncAt].scenarios.review \/ remote[syncAt].patch.review)
<1>1. Sync!WriteConfig
  BY DEF Sync!Next, Sync!syncBraintrustCmd, Sync!LoadBraintrustSyncArtifacts, Sync!WriteInsights,
         Sync!WriteDataset, Sync!Checkout, Sync!Add, Sync!Commit, Sync!CreatePullRequest, Sync!BackToMain,
         Sync!NewExperiment, Sync!Stop
<1>2. Sync!ApplyBraintrustInsightDataset(SyncBase, fetched, order) # Sync!Invalid
  BY <1>1 DEF Sync!WriteConfig
<1>3. ~Sync!requiresReview(fetched)
  BY <1>2 DEF Sync!ApplyBraintrustInsightDataset
<1>4. syncAt \in DOMAIN remote /\ fetched = Sync!FetchInsights(remote[syncAt])
  BY DEF SyncInv, FetchedInv
<1>5. remote[syncAt] \in Sync!Experiments
  BY <1>4 DEF SyncInv, SyncTypes
<1> QED BY <1>3, <1>4, <1>5, FetchedKeepsReview

LEMMA ProjectSync == ProjectSpec => []SyncInv
<1>1. ProjectInit => SyncInv
  BY SyncStarts DEF ProjectInit
<1>2. SyncInv /\ [ProjectNext]_all => SyncInv'
  <2> SUFFICES ASSUME SyncInv, [ProjectNext]_all PROVE SyncInv'
    OBVIOUS
  <2>1. Sync!Next \/ UNCHANGED syncVars
    BY DEF ProjectNext, all
  <2> QED BY <2>1, SyncStep
<1> QED BY <1>1, <1>2, PTL DEF ProjectSpec

\* A sync that publishes publishes the insights, the dataset and the
\* configuration of its own run, whatever earlier runs that failed half way
\* have left on disk, staged or committed; and without an approval no
\* configuration is written from an experiment any part of which asks for a
\* review (runSyncBraintrust, createGitHubPR, requiresReview).
THEOREM ProjectPublishedIsThisRun == ProjectSpec => PublishedIsThisRun
<1>1. [ProjectNext]_all => Sync!Next \/ UNCHANGED Sync!vars
  BY DEF ProjectNext, all, syncVars, Sync!vars
<1>2. SyncInv /\ [ProjectNext]_all =>
        [repo'.published # repo.published =>
           LET commit == Sync!Last(repo'.published)
           IN  /\ commit.insights = <<runs, fetched>>
               /\ fetched.scenarios.there /\ order.dataset => commit.dataset = <<runs, fetched.scenarios>>
               /\ commit.config = <<runs, Sync!ApplyBraintrustInsightDataset(SyncBase, fetched, order)>>]_(Sync!vars)
  BY <1>1, StepPublishesThisRun
<1>3. SyncInv /\ [ProjectNext]_all =>
        [syncStage = "config" /\ syncFiles'.config # syncFiles.config /\ ~order.approved =>
           ~ (remote[syncAt].review \/ remote[syncAt].scenarios.review \/ remote[syncAt].patch.review)]_(Sync!vars)
  BY <1>1, StepAppliesReviewed
<1> QED BY <1>2, <1>3, ProjectSync, PTL
        DEF ProjectSpec, PublishedIsThisRun, Sync!PublishedIsThisRun, Sync!UnreviewedIsNotApplied

-----------------------------------------------------------------------------
(***************************************************************************)
(* The dataset review.  What ScenarioProofs proves is about an instance  *)
(* of its own: the definitions of DatasetReview come under two names here, and *)
(* the lemmas on sameness say that they are the same operators.                *)
(***************************************************************************)
Reviews ==
  INSTANCE ScenarioProofs WITH
    stage <- reviewStage, config <- baseConfig, at <- reviewAt, files <- reviewFiles, exit <- reviewExit

(* The operators under both names.                                           *)

LEMMA SameCardinality == \A x : Review!Cardinality(x) = Reviews!Cardinality(x)
BY DEF Review!Cardinality, Reviews!Cardinality

LEMMA SamePosition == \A x, y : Review!Position(x, y) = Reviews!Position(x, y)
BY DEF Review!Position, Reviews!Position, Review!Max, Reviews!Max

LEMMA SameNames == \A x : Review!Names(x) = Reviews!Names(x)
BY DEF Review!Names, Reviews!Names

LEMMA SameExportScenarioDataset ==
  \A x, y, z : Review!ExportScenarioDataset(x, y, z) = Reviews!ExportScenarioDataset(x, y, z)
<1> SUFFICES ASSUME NEW x, NEW y, NEW z
             PROVE  Review!ExportScenarioDataset(x, y, z) = Reviews!ExportScenarioDataset(x, y, z)
  OBVIOUS
<1> QED BY Zenon
        DEF Review!ExportScenarioDataset, Reviews!ExportScenarioDataset, Review!Names, Reviews!Names,
            Review!Ascending, Reviews!Ascending, Review!Cardinality, Reviews!Cardinality, Review!Position,
            Reviews!Position, Review!Max, Reviews!Max, Review!FailedName, Reviews!FailedName

LEMMA SameDecodeGeneratedScenarios ==
  \A x, y, z, u : Review!decodeGeneratedScenarios(x, y, z, u) = Reviews!decodeGeneratedScenarios(x, y, z, u)
<1> SUFFICES ASSUME NEW x, NEW y, NEW z, NEW u
             PROVE  Review!decodeGeneratedScenarios(x, y, z, u) = Reviews!decodeGeneratedScenarios(x, y, z, u)
  OBVIOUS
<1> QED BY Zenon
    DEF Review!decodeGeneratedScenarios, Reviews!decodeGeneratedScenarios, Review!normalizeScenario,
     Reviews!normalizeScenario, Review!sanitizeScenarioName, Reviews!sanitizeScenarioName, Review!NamedAfter,
     Reviews!NamedAfter, Review!ensureUniqueName, Reviews!ensureUniqueName, Review!Suffixed, Reviews!Suffixed,
     Review!Cardinality, Reviews!Cardinality, Review!NamesTaken, Reviews!NamesTaken, Review!Names,
     Reviews!Names, Review!Min, Reviews!Min, Review!FoldLeftDomain, Reviews!FoldLeftDomain, Review!FoldLeft,
     Reviews!FoldLeft, Review!Max, Reviews!Max, Review!MapThenFoldSet, Reviews!MapThenFoldSet

LEMMA SameAppendOrReplaceScenario ==
  \A x, y : Review!appendOrReplaceScenario(x, y) = Reviews!appendOrReplaceScenario(x, y)
BY DEF Review!appendOrReplaceScenario, Reviews!appendOrReplaceScenario, Review!Put, Reviews!Put, Review!Names,
     Reviews!Names, Review!Position, Reviews!Position, Review!Max, Reviews!Max

LEMMA SameMergeDatasetIntoConfig ==
  \A x, y : Review!MergeDatasetIntoConfig(x, y) = Reviews!MergeDatasetIntoConfig(x, y)
BY DEF Review!MergeDatasetIntoConfig, Reviews!MergeDatasetIntoConfig, Review!Put, Reviews!Put, Review!Names,
     Reviews!Names, Review!Position, Reviews!Position, Review!Max, Reviews!Max, Review!FoldLeft,
     Reviews!FoldLeft, Review!MapThenFoldSet, Reviews!MapThenFoldSet

LEMMA SameBuildReviewedEntry == \A x, y : Review!buildReviewedEntry(x, y) = Reviews!buildReviewedEntry(x, y)
BY DEF Review!buildReviewedEntry, Reviews!buildReviewedEntry, Review!Status, Reviews!Status, Review!Names,
     Reviews!Names, Review!Position, Reviews!Position, Review!Max, Reviews!Max, Review!buildReviewAnalysis,
     Reviews!buildReviewAnalysis, Review!reviewNoveltyScore, Reviews!reviewNoveltyScore,
     Review!reviewDuplicatePenalty, Reviews!reviewDuplicatePenalty, Review!stableSuitability,
     Reviews!stableSuitability

LEMMA SameApplyPolicyRules ==
  \A x, y, z, u : Review!applyPolicyRules(x, y, z, u) = Reviews!applyPolicyRules(x, y, z, u)
BY DEF Review!applyPolicyRules, Reviews!applyPolicyRules, Review!reviewPolicyRuleMatches,
     Reviews!reviewPolicyRuleMatches, Review!SuitabilityRank, Reviews!SuitabilityRank, Review!ApplyRule,
     Reviews!ApplyRule, Review!PolicyTags, Reviews!PolicyTags, Review!FoldLeftDomain, Reviews!FoldLeftDomain,
     Review!FoldLeft, Reviews!FoldLeft, Review!Max, Reviews!Max, Review!MapThenFoldSet, Reviews!MapThenFoldSet

LEMMA SameApplyReviewOptions ==
  \A x, y, z, u, v : Review!applyReviewOptions(x, y, z, u, v) = Reviews!applyReviewOptions(x, y, z, u, v)
BY SameApplyPolicyRules
  DEF Review!applyReviewOptions, Reviews!applyReviewOptions

LEMMA SameReviewScenario ==
  \A x, y, z, u, v, w : Review!reviewScenario(x, y, z, u, v, w) = Reviews!reviewScenario(x, y, z, u, v, w)
BY SameBuildReviewedEntry, SameApplyReviewOptions
  DEF Review!reviewScenario, Reviews!reviewScenario

LEMMA SameSortReviewedScenarios == \A x : Review!sortReviewedScenarios(x) = Reviews!sortReviewedScenarios(x)
BY DEF Review!sortReviewedScenarios, Reviews!sortReviewedScenarios, Review!Place, Reviews!Place, Review!Before,
     Reviews!Before, Review!RanksAbove, Reviews!RanksAbove, Review!Cardinality, Reviews!Cardinality

LEMMA SameCount == \A x, y, z : Review!Count(x, y, z) = Reviews!Count(x, y, z)
BY DEF Review!Count, Reviews!Count, Review!Cardinality, Reviews!Cardinality

LEMMA SameAccumulateReviewSummary ==
  \A x, y : Review!accumulateReviewSummary(x, y) = Reviews!accumulateReviewSummary(x, y)
BY SameCount
  DEF Review!accumulateReviewSummary, Reviews!accumulateReviewSummary

LEMMA SameFinalizeReviewedScenarioDataset ==
  \A x : Review!FinalizeReviewedScenarioDataset(x) = Reviews!FinalizeReviewedScenarioDataset(x)
BY SameSortReviewedScenarios, SameAccumulateReviewSummary
  DEF Review!FinalizeReviewedScenarioDataset, Reviews!FinalizeReviewedScenarioDataset, Review!NoCounts,
     Reviews!NoCounts

LEMMA SameApprovedDatasetFromReview ==
  \A x : Review!ApprovedDatasetFromReview(x) = Reviews!ApprovedDatasetFromReview(x)
BY DEF Review!ApprovedDatasetFromReview, Reviews!ApprovedDatasetFromReview, Review!Select, Reviews!Select,
     Review!Ascending, Reviews!Ascending, Review!Cardinality, Reviews!Cardinality

LEMMA SameMergeReviewedDatasetIntoConfig ==
  \A x, y : Review!MergeReviewedDatasetIntoConfig(x, y) = Reviews!MergeReviewedDatasetIntoConfig(x, y)
BY SameMergeDatasetIntoConfig, SameApprovedDatasetFromReview
  DEF Review!MergeReviewedDatasetIntoConfig, Reviews!MergeReviewedDatasetIntoConfig, Review!WithProvenance,
     Reviews!WithProvenance

LEMMA SameReviewDatasetAgainstConfig ==
  ASSUME NEW x, NEW y, NEW z, NEW u
  PROVE  Review!ReviewDatasetAgainstConfig(x, y, z, u) = Reviews!ReviewDatasetAgainstConfig(x, y, z, u)
<1> DEFINE a == [i \in DOMAIN y.entries |-> Review!reviewScenario(i, y.entries[i], x, z, u, y.source)]
           b == [i \in DOMAIN y.entries |-> Reviews!reviewScenario(i, y.entries[i], x, z, u, y.source)]
<1>1. a = b
  BY SameReviewScenario
<1>2. /\ Review!ReviewDatasetAgainstConfig(x, y, z, u)
           = [entries |-> Review!sortReviewedScenarios(a),
              counts |-> Review!accumulateReviewSummary(Review!NoCounts, a)]
      /\ Reviews!ReviewDatasetAgainstConfig(x, y, z, u)
           = [entries |-> Reviews!sortReviewedScenarios(b),
              counts |-> Reviews!accumulateReviewSummary(Reviews!NoCounts, b)]
  BY DEF Review!ReviewDatasetAgainstConfig, Reviews!ReviewDatasetAgainstConfig
<1>3. Review!NoCounts = Reviews!NoCounts
  BY DEF Review!NoCounts, Reviews!NoCounts
<1> HIDE DEF a, b
<1> QED BY <1>1, <1>2, <1>3, SameSortReviewedScenarios, SameAccumulateReviewSummary

-----------------------------------------------------------------------------
(* The actions and the properties under both names.                          *)

LEMMA SameInit == Review!Init => Reviews!Init
BY DEF Review!Init, Reviews!Init, Review!NoData, Reviews!NoData, Review!Nothing, Reviews!Nothing,
     Review!Unreviewed, Reviews!Unreviewed, Review!NoCounts, Reviews!NoCounts

LEMMA SameMakeDataset == Review!MakeDataset => Reviews!MakeDataset
BY SameExportScenarioDataset, SameDecodeGeneratedScenarios
  DEF Review!MakeDataset, Reviews!MakeDataset, Review!NoData, Reviews!NoData, Review!End, Reviews!End,
     Review!Unread, Reviews!Unread

LEMMA SameGenerateAuthoring == Review!GenerateAuthoring => Reviews!GenerateAuthoring
BY DEF Review!GenerateAuthoring, Reviews!GenerateAuthoring, Review!authoredScenario, Reviews!authoredScenario,
     Review!appendOrReplaceScenario, Reviews!appendOrReplaceScenario, Review!Put, Reviews!Put, Review!Names,
     Reviews!Names, Review!Position, Reviews!Position, Review!Max, Reviews!Max, Review!Unread, Reviews!Unread

LEMMA SameDatasetImport == Review!DatasetImport => Reviews!DatasetImport
BY SameMergeDatasetIntoConfig
  DEF Review!DatasetImport, Reviews!DatasetImport, Review!Scenarios, Reviews!Scenarios, Review!End,
     Reviews!End, Review!Unread, Reviews!Unread, Review!ImportRefused, Reviews!ImportRefused

LEMMA SameLoadReviewContext == Review!LoadReviewContext => Reviews!LoadReviewContext
BY SameReviewDatasetAgainstConfig
  DEF Review!LoadReviewContext, Reviews!LoadReviewContext, Review!End, Reviews!End,
     Review!validateReviewOptions, Reviews!validateReviewOptions, Review!Names, Reviews!Names,
     Review!Scenarios, Reviews!Scenarios, Review!validateDatasetReviewPolicyRule,
     Reviews!validateDatasetReviewPolicyRule

LEMMA SameEditEntry == Review!EditEntry => Reviews!EditEntry
BY DEF Review!EditEntry, Reviews!EditEntry, Review!Edited, Reviews!Edited, Review!Reading, Reviews!Reading

LEMMA SameLineDecides == Review!LineDecides => Reviews!LineDecides
BY SameFinalizeReviewedScenarioDataset
  DEF Review!LineDecides, Reviews!LineDecides, Review!Decided, Reviews!Decided, Review!Decisions,
     Reviews!Decisions, Review!Reading, Reviews!Reading, Review!Show, Reviews!Show, Review!Leave,
     Reviews!Leave

LEMMA SameLineEnds == Review!LineEnds => Reviews!LineEnds
BY SameFinalizeReviewedScenarioDataset
  DEF Review!LineEnds, Reviews!LineEnds, Review!Reading, Reviews!Reading, Review!Leave, Reviews!Leave

LEMMA SameScreenDecides == Review!ScreenDecides => Reviews!ScreenDecides
BY SameFinalizeReviewedScenarioDataset
  DEF Review!ScreenDecides, Reviews!ScreenDecides, Review!Decided, Reviews!Decided, Review!Decisions,
     Reviews!Decisions, Review!Reading, Reviews!Reading, Review!Show, Reviews!Show, Review!Leave,
     Reviews!Leave

LEMMA SameScreenMoves == Review!ScreenMoves => Reviews!ScreenMoves
BY DEF Review!ScreenMoves, Reviews!ScreenMoves, Review!Reading, Reviews!Reading, Review!Show, Reviews!Show

LEMMA SameQuit == Review!Quit => Reviews!Quit
BY DEF Review!Quit, Reviews!Quit, Review!End, Reviews!End, Review!Unread, Reviews!Unread, Review!Reading,
     Reviews!Reading

LEMMA SameWriteReview == Review!WriteReview => Reviews!WriteReview
BY DEF Review!WriteReview, Reviews!WriteReview, Review!End, Reviews!End, Review!Unread, Reviews!Unread

LEMMA SameWriteMerged == Review!WriteMerged => Reviews!WriteMerged
BY SameMergeReviewedDatasetIntoConfig
  DEF Review!WriteMerged, Reviews!WriteMerged, Review!End, Reviews!End, Review!Unread, Reviews!Unread

LEMMA SameJudgeGate == Review!JudgeGate => Reviews!JudgeGate
BY DEF Review!JudgeGate, Reviews!JudgeGate, Review!evaluateDatasetReviewGate, Reviews!evaluateDatasetReviewGate,
     Review!End, Reviews!End, Review!Unread, Reviews!Unread

LEMMA SameStop == Review!Stop => Reviews!Stop
BY DEF Review!Stop, Reviews!Stop, Review!vars, Reviews!vars

LEMMA SameReviewAssumption == Review!ReviewAssumption => Reviews!ReviewAssumption
BY DEF Review!ReviewAssumption, Reviews!ReviewAssumption, Review!IsScenario, Reviews!IsScenario, Review!ToSet,
     Reviews!ToSet

LEMMA SameGateIsOfTheWrittenReview == Reviews!GateIsOfTheWrittenReview => Review!GateIsOfTheWrittenReview
BY DEF Review!GateIsOfTheWrittenReview, Reviews!GateIsOfTheWrittenReview, Review!Cardinality,
     Reviews!Cardinality

LEMMA SameEveryCandidateIsShown == Reviews!EveryCandidateIsShown => Review!EveryCandidateIsShown
BY DEF Review!EveryCandidateIsShown, Reviews!EveryCandidateIsShown

LEMMA SameTagRules == Reviews!TagRulesDoNotDecide => Review!TagRulesDoNotDecide
<1> SUFFICES ASSUME Reviews!TagRulesDoNotDecide, reviewStage = "made", case.command = "review",
                    NEW i \in DOMAIN dataset.entries
             PROVE  LET deciding == [k \in DOMAIN case.rules |->
                          IF case.rules[k].action \in {"approve", "reject"} THEN case.rules[k]
                          ELSE [case.rules[k] EXCEPT !.action = "add-tags", !.add = {}]]
                        bare == [case.hand EXCEPT !.stable = {}, !.regression = {}, !.retag = {}]
                        Decision(rules, hand) ==
                          Review!reviewScenario(i, dataset.entries[i], baseConfig, rules, hand, dataset.source).decision
                    IN  Decision(case.rules, case.hand) = Decision(deciding, bare)
  BY DEF Review!TagRulesDoNotDecide
<1> QED BY SameReviewScenario DEF Reviews!TagRulesDoNotDecide

\* What a review's step writes, under the names of the composition.
MergedAs(x, y, z) ==
  LET approved == {i \in DOMAIN y : y[i].decision = "approved"}
      names == {y[i].scenario.name : i \in approved}
  IN  approved # {} =>
        /\ Len(z) = Review!Cardinality(Review!Names(x) \cup names)
        /\ \A i \in DOMAIN x : x[i].name \notin names => z[i] = x[i]
        /\ \A n \in names : \E i \in approved :
             LET s == y[i].scenario
             IN  s.name = n /\ [z[Review!Position(z, n)] EXCEPT !.meta = s.meta] = s

LEMMA SameMerged ==
  ASSUME NEW x, NEW y, NEW z, Reviews!MergedFrom(x, y, z)
  PROVE  MergedAs(x, y, z)
BY SameCardinality, SamePosition, SameNames DEF Reviews!MergedFrom, MergedAs

-----------------------------------------------------------------------------
\* A step of the project is one of the review, or leaves it alone.
LEMMA ReviewSteps ==
  /\ Reviews!ReviewAssumption
  /\ ProjectInit => Reviews!Init
  /\ [ProjectNext]_all => [Reviews!Next]_(Reviews!vars) /\ [Review!Next]_reviewVars
<1>1. [ProjectNext]_all => [Review!Next]_reviewVars
  BY DEF ProjectNext, all
<1>2. Review!Next => Reviews!Next
  BY SameMakeDataset, SameGenerateAuthoring, SameDatasetImport, SameLoadReviewContext, SameEditEntry,
     SameLineDecides, SameLineEnds, SameScreenDecides, SameScreenMoves, SameQuit, SameWriteReview,
     SameWriteMerged, SameJudgeGate, SameStop
  DEF Review!Next, Reviews!Next
<1>3. UNCHANGED reviewVars => UNCHANGED Reviews!vars
  BY DEF reviewVars, Reviews!vars
<1>4. ProjectInit => Reviews!Init
  BY SameInit DEF ProjectInit
<1> QED BY <1>1, <1>2, <1>3, <1>4, ProjectAssumption, SameReviewAssumption

\* The inductive invariant of the review, of the composition.
LEMMA ReviewInvariant == ProjectSpec => []Reviews!IInv
<1>1. ProjectInit => Reviews!IInv
  BY ReviewSteps, Reviews!Initially
<1>2. Reviews!IInv /\ [ProjectNext]_all => Reviews!IInv'
  BY ReviewSteps, Reviews!Steps
<1> QED BY <1>1, <1>2, PTL DEF ProjectSpec

\* Whatever policy, options and edits: the exit code is the gate's word on the
\* review that was written, rules that only add tags decide nothing, and the
\* screen ends with every candidate shown (datasetReviewCmd, applyPolicyRules,
\* afterScenarioAction).
THEOREM ProjectReviewIsTheWrittenOne == ProjectSpec => []ReviewIsTheWrittenOne
<1>1. Reviews!IInv => ReviewIsTheWrittenOne
  <2>1. Reviews!IInv => Reviews!GateIsOfTheWrittenReview
    BY DEF Reviews!IInv, Reviews!FilesInv
  <2> QED BY <2>1, ReviewSteps, Reviews!TagRules, Reviews!CandidatesShown, SameTagRules,
             SameGateIsOfTheWrittenReview, SameEveryCandidateIsShown DEF ReviewIsTheWrittenOne
<1> QED BY <1>1, ReviewInvariant, PTL

\* For every configuration, dataset and review: what is merged is the base with
\* the approved scenarios in their places, and a generated dataset replaces
\* nothing (MergeReviewedDatasetIntoConfig, decodeGeneratedScenarios).
THEOREM ProjectMergedIsReviewed == ProjectSpec => MergedIsReviewed
<1>1. Reviews!IInv /\ [ProjectNext]_all =>
        [(reviewFiles'.merged # reviewFiles.merged /\ case.command = "review") =>
           LET entries == reviewFiles.review[1].entries
               merged == reviewFiles'.merged[1]
               approved == {i \in DOMAIN entries : entries[i].decision = "approved"}
               names == {entries[i].scenario.name : i \in approved}
           IN  approved # {} =>
                 /\ Len(merged) = Review!Cardinality(Review!Names(baseConfig) \cup names)
                 /\ \A i \in DOMAIN baseConfig : baseConfig[i].name \notin names => merged[i] = baseConfig[i]
                 /\ \A n \in names : \E i \in approved :
                      LET s == entries[i].scenario
                      IN  s.name = n /\ [merged[Review!Position(merged, n)] EXCEPT !.meta = s.meta] = s]_(Review!vars)
  <2>1. ASSUME Reviews!IInv, [ProjectNext]_all, reviewFiles'.merged # reviewFiles.merged, case.command = "review"
        PROVE  MergedAs(baseConfig, reviewFiles.review[1].entries, reviewFiles'.merged[1])
    BY <2>1, ReviewSteps, Reviews!MergedStep, SameMerged
  <2> QED BY <2>1 DEF MergedAs
<1>2. Reviews!IInv /\ [ProjectNext]_all =>
        [(reviewFiles'.merged # reviewFiles.merged /\ dataset.source = "generation" /\ baseConfig = case.config
           /\ reviewFiles'.merged[1] # <<>>)
           => SubSeq(reviewFiles'.merged[1], 1, Len(baseConfig)) = baseConfig]_(Review!vars)
  BY ReviewSteps, Reviews!GeneratedStep
<1>3. ProjectSpec => Review!MergedIsReviewed
  BY <1>1, ReviewInvariant, PTL DEF ProjectSpec, Review!MergedIsReviewed
<1>4. ProjectSpec => Review!GeneratedNeverReplaces
  BY <1>2, ReviewInvariant, PTL DEF ProjectSpec, Review!GeneratedNeverReplaces
<1> QED BY <1>3, <1>4 DEF MergedIsReviewed

-----------------------------------------------------------------------------
(***************************************************************************)
(* The sync applied twice.  ScenarioProofs says it of any configuration,      *)
(* scenarios and patches; here, that those of a run are such.                  *)
(***************************************************************************)
LEMMA SameSyncedScenario ==
  /\ \A x : Sync!IsScenario(x) <=> Reviews!IsScenario(x)
  /\ \A x : Sync!ToSet(x) = Reviews!ToSet(x)
BY DEF Sync!IsScenario, Reviews!IsScenario, Sync!ToSet, Reviews!ToSet

LEMMA SameSyncedConfig == \A x : Sync!IsConfig(x) => Reviews!IsConfig(x)
BY SameSyncedScenario DEF Sync!IsConfig, Reviews!IsConfig

LEMMA SameSyncedExport ==
  \A x, y, z : Sync!ExportScenarioDataset(x, y, z) = Reviews!ExportScenarioDataset(x, y, z)
<1> SUFFICES ASSUME NEW x, NEW y, NEW z
             PROVE  Sync!ExportScenarioDataset(x, y, z) = Reviews!ExportScenarioDataset(x, y, z)
  OBVIOUS
<1> QED BY Zenon
        DEF Sync!ExportScenarioDataset, Reviews!ExportScenarioDataset, Sync!Names, Reviews!Names,
            Sync!Ascending, Reviews!Ascending, Sync!Cardinality, Reviews!Cardinality, Sync!Position,
            Reviews!Position, Sync!Max, Reviews!Max, Sync!FailedName, Reviews!FailedName

LEMMA SameSyncedMerge == \A x, y : Sync!MergeDatasetIntoConfig(x, y) = Reviews!MergeDatasetIntoConfig(x, y)
<1> SUFFICES ASSUME NEW x, NEW y PROVE Sync!MergeDatasetIntoConfig(x, y) = Reviews!MergeDatasetIntoConfig(x, y)
  OBVIOUS
<1> QED BY Zenon
        DEF Sync!MergeDatasetIntoConfig, Reviews!MergeDatasetIntoConfig, Sync!Put, Reviews!Put, Sync!Names,
            Reviews!Names, Sync!Position, Reviews!Position, Sync!Max, Reviews!Max, Sync!FoldLeft,
            Reviews!FoldLeft, Sync!MapThenFoldSet, Reviews!MapThenFoldSet

LEMMA SameSyncedPatches ==
  \A x, y : Sync!ApplyBraintrustConfigPatchSet(x, y) = Reviews!ApplyBraintrustConfigPatchSet(x, y)
<1> SUFFICES ASSUME NEW x, NEW y
             PROVE  Sync!ApplyBraintrustConfigPatchSet(x, y) = Reviews!ApplyBraintrustConfigPatchSet(x, y)
  OBVIOUS
<1> QED BY Zenon
        DEF Sync!ApplyBraintrustConfigPatchSet, Reviews!ApplyBraintrustConfigPatchSet,
            Sync!applyConfigPatchOperation, Reviews!applyConfigPatchOperation, Sync!resolvePatchParent,
            Reviews!resolvePatchParent, Sync!AppendUnique, Reviews!AppendUnique, Sync!Invalid, Reviews!Invalid,
            Sync!Names, Reviews!Names, Sync!Position, Reviews!Position, Sync!Max, Reviews!Max, Sync!ToSet,
            Reviews!ToSet, Sync!FoldLeft, Reviews!FoldLeft, Sync!MapThenFoldSet, Reviews!MapThenFoldSet

\* Insights that are applied: their scenarios, then their patches.
LEMMA SyncApplies ==
  ASSUME NEW c, NEW insights, NEW o, ~(Sync!requiresReview(insights) /\ ~o.approved)
  PROVE  Sync!ApplyBraintrustInsightDataset(c, insights, o)
           = Reviews!Apply(c, insights.scenarios.items, insights.patch.items, o.scenarios, o.patches)
<1>1. Sync!ApplyBraintrustInsightDataset(c, insights, o)
        = LET merged == IF o.scenarios /\ insights.scenarios.items # <<>>
                        THEN [c EXCEPT !.scenarios = Sync!MergeDatasetIntoConfig(@, insights.scenarios.items)] ELSE c
          IN  IF o.patches THEN Sync!ApplyBraintrustConfigPatchSet(merged, insights.patch.items) ELSE merged
  BY DEF Sync!ApplyBraintrustInsightDataset
<1> QED BY <1>1, SameSyncedMerge, SameSyncedPatches DEF Reviews!Apply

\* Lists of scenarios, as an experiment has them or a replay gives them.
ListsScenarios(l) == Reviews!IsList(l) /\ \A i \in DOMAIN l : Reviews!IsScenario(l[i])

\* What is fetched: a list of scenarios and a list of patches.
LEMMA FetchedIsListed ==
  ASSUME NEW e \in Sync!Experiments
  PROVE  /\ ListsScenarios(Sync!FetchInsights(e).scenarios.items)
         /\ Reviews!IsOps(Sync!FetchInsights(e).patch.items)
<1>1. Reviews!IsConfig(SyncBase)
  BY ProjectAssumption, SameSyncedConfig DEF Sync!SyncAssumption
<1>2. /\ e.replay.items \in Seq(Sync!ToSet(e.replay.items))
      /\ \A x \in Sync!ToSet(e.replay.items) : x.severity \in Int
      /\ e.scenarios.items \in Seq(Sync!ToSet(e.scenarios.items))
      /\ \A s \in Sync!ToSet(e.scenarios.items) : Sync!IsScenario(s)
      /\ e.patch.items \in Seq(Sync!ToSet(e.patch.items))
      /\ \A op \in Sync!ToSet(e.patch.items) : op.value \in Seq(Sync!ToSet(op.value))
  BY ProjectAssumption DEF Sync!SyncAssumption
<1> DEFINE exported == Sync!Scenarios(Sync!ExportScenarioDataset(SyncBase.scenarios, e.replay.items, FALSE))
           replayed == IF e.replay.there THEN Sync!Present(FALSE, exported) ELSE Sync!NotThere
           merged == Sync!mergeScenarioDatasets(replayed, e.scenarios)
<1>3. ListsScenarios(exported)
  <2> DEFINE entries == Reviews!ExportScenarioDataset(SyncBase.scenarios, e.replay.items, FALSE)
             list == Reviews!Scenarios(entries)
  <2>1. exported = list
    BY SameSyncedExport DEF Sync!Scenarios, Reviews!Scenarios
  <2>2. Reviews!Distinct(SyncBase.scenarios) /\ \A i \in DOMAIN SyncBase.scenarios : Reviews!IsScenario(SyncBase.scenarios[i])
    BY <1>1, Reviews!ConfigShape
  <2>3. Reviews!IsList(e.replay.items) /\ \A i \in DOMAIN e.replay.items : e.replay.items[i].severity \in Int
    BY <1>2 DEF Reviews!IsList, Sync!ToSet
  <2>4. Reviews!IsList(entries) /\ \A i \in DOMAIN entries : Reviews!EntryOK(entries[i])
    BY <2>2, <2>3, Reviews!ExportIsDataset
  <2> HIDE DEF entries, exported
  <2>5. Reviews!IsList(list) /\ DOMAIN list = DOMAIN entries
    BY <2>4, Reviews!ScenariosAreListed
  <2>6. \A i \in DOMAIN entries : list[i] = entries[i].scenario
    BY DEF Reviews!Scenarios
  <2> HIDE DEF list
  <2>7. \A i \in DOMAIN list : Reviews!IsScenario(list[i])
    BY <2>4, <2>5, <2>6 DEF Reviews!EntryOK
  <2> QED BY <2>1, <2>5, <2>7 DEF ListsScenarios
<1>4. ListsScenarios(e.scenarios.items)
  <2>1. \A i \in DOMAIN e.scenarios.items : e.scenarios.items[i] \in Sync!ToSet(e.scenarios.items)
    BY DEF Sync!ToSet
  <2>2. \A i \in DOMAIN e.scenarios.items : Reviews!IsScenario(e.scenarios.items[i])
    BY <1>2, <2>1, SameSyncedScenario
  <2> QED BY <1>2, <2>2 DEF ListsScenarios, Reviews!IsList
<1>5. ListsScenarios(<<>>)
  BY DEF ListsScenarios, Reviews!IsList
<1>6. ListsScenarios(Sync!MergeDatasetIntoConfig(exported, e.scenarios.items))
  <2> DEFINE added == e.scenarios.items
  <2> HIDE DEF exported, added
  <2>1. ListsScenarios(exported) /\ ListsScenarios(added)
    BY <1>3, <1>4 DEF added
  <2>2. LET m == Reviews!MergeDatasetIntoConfig(exported, added)
        IN  Reviews!IsList(m) /\ \A i \in DOMAIN m : Reviews!IsScenario(m[i])
    BY <2>1, Reviews!MergedIsScenarios DEF ListsScenarios
  <2> QED BY <2>2, SameSyncedMerge DEF ListsScenarios, added
<1> HIDE DEF exported
<1>7. ListsScenarios(merged.items)
  <2>1. CASE ~e.scenarios.there /\ e.replay.there
    BY <1>3, <2>1 DEF Sync!mergeScenarioDatasets, Sync!Present
  <2>2. CASE ~e.scenarios.there /\ ~e.replay.there
    BY <1>5, <2>2 DEF Sync!mergeScenarioDatasets, Sync!NotThere
  <2>3. CASE e.scenarios.there /\ ~e.replay.there
    BY <1>4, <2>3 DEF Sync!mergeScenarioDatasets, Sync!NotThere
  <2>4. CASE e.scenarios.there /\ e.replay.there
    BY <1>6, <2>4 DEF Sync!mergeScenarioDatasets, Sync!Present
  <2> QED BY <2>1, <2>2, <2>3, <2>4
<1>8. Reviews!IsOps(e.patch.items)
  <2>1. \A k \in DOMAIN e.patch.items : e.patch.items[k] \in Sync!ToSet(e.patch.items)
    BY DEF Sync!ToSet
  <2>2. \A k \in DOMAIN e.patch.items : Reviews!IsList(e.patch.items[k].value)
    BY <1>2, <2>1 DEF Reviews!IsList
  <2>3. Reviews!IsList(e.patch.items)
    BY <1>2 DEF Reviews!IsList
  <2> QED BY <2>2, <2>3 DEF Reviews!IsOps
<1>9. Sync!FetchInsights(e) = [review |-> e.review, scenarios |-> merged, patch |-> e.patch]
  BY DEF Sync!FetchInsights, exported
<1> HIDE DEF merged
<1> QED BY <1>7, <1>8, <1>9

\* For any experiments, options and configuration: syncing the same insights
\* into what they were synced into changes nothing (applyAppendUniquePatch,
\* MergeDatasetIntoConfig).
THEOREM ProjectSyncTwiceIsSyncOnce == ProjectSpec => []SyncTwiceIsSyncOnce
<1>1. SyncInv => SyncTwiceIsSyncOnce
  <2> DEFINE once == Sync!ApplyBraintrustInsightDataset(SyncBase, fetched, order)
             added == fetched.scenarios.items
             ops == fetched.patch.items
  <2> SUFFICES ASSUME SyncInv, syncStage = "config", once # Sync!Invalid
               PROVE  Sync!ApplyBraintrustInsightDataset(once, fetched, order) = once
    BY DEF SyncTwiceIsSyncOnce, Sync!SyncTwiceIsSyncOnce
  <2>1. syncAt \in DOMAIN remote /\ fetched = Sync!FetchInsights(remote[syncAt])
    BY DEF SyncInv, FetchedInv
  <2>2. remote[syncAt] \in Sync!Experiments
    BY <2>1 DEF SyncInv, SyncTypes
  <2>3. ListsScenarios(added) /\ Reviews!IsOps(ops)
    BY <2>1, <2>2, FetchedIsListed
  <2>4. ~(Sync!requiresReview(fetched) /\ ~order.approved)
    BY DEF Sync!ApplyBraintrustInsightDataset
  <2>5. Reviews!IsConfig(SyncBase)
    BY ProjectAssumption, SameSyncedConfig DEF Sync!SyncAssumption
  <2>6. once = Reviews!Apply(SyncBase, added, ops, order.scenarios, order.patches) /\ once # Reviews!Invalid
    BY <2>4, SyncApplies DEF Sync!Invalid, Reviews!Invalid
  <2>7. Sync!ApplyBraintrustInsightDataset(once, fetched, order)
          = Reviews!Apply(once, added, ops, order.scenarios, order.patches)
    <3> HIDE DEF once
    <3> QED BY <2>4, SyncApplies
  <2> HIDE DEF once, added, ops
  <2>8. Reviews!IsList(added) /\ \A i \in DOMAIN added : Reviews!IsScenario(added[i])
    BY <2>3 DEF ListsScenarios
  <2>9. Reviews!Apply(once, added, ops, order.scenarios, order.patches) = once
    BY <2>3, <2>5, <2>6, <2>8, Reviews!AppliedTwice
  <2> QED BY <2>7, <2>9
<1> QED BY <1>1, ProjectSync, PTL

=============================================================================
