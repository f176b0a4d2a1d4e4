-------------------------- MODULE AuditChain_proofs --------------------------
(***************************************************************************)
(* Theorems about AuditChain: what a sink writes after continues the file, *)
(* a record whose Write returned no error stays in the part that verifies, *)
(* and a checkpoint moves only along a chain that holds the one before,    *)
(* for any number of brokers, records, failures and power losses.          *)
(***************************************************************************)
EXTENDS AuditChain, SequenceTheorems, TLAPS

\* One process holds the lock, and the file it opened is there.
UpInv ==
  /\ \A b, c \in Brokers : ~At(b, "down") /\ ~At(c, "down") => b = c
  /\ \A b \in Brokers : ~At(b, "down") => exists
  /\ named => exists
  /\ Len(safe) <= Len(file)

\* The sink b of which no write failed: the file ends in the record it knows, the
\* name is on disk unless it is to be synced, and what awaits the directory's
\* sync is on disk itself.
SinkInv(b) == ~At(b, "down") =>
  /\ At(b, "syncDir") => safe = file
  /\ ~At(b, "ready") => sink[b].rec \in RecordIds
  /\ sink[b].clean =>
       /\ sink[b].need \/ named
       /\ Verifies(file) /\ ~Unfinished(file)
       /\ LastHash(file) = IF At(b, "ready") THEN sink[b].last ELSE sink[b].rec

\* The first n lines verify, the n-th is complete: nothing changes them.
Settled(f, n) == /\ \A i \in 1..n : f[i].form \in Records /\ f[i].prev = HashBefore(f, i)
                 /\ f[n].form = "line"
KeptAt(r, n) == /\ safe[n].id = r.id /\ Settled(safe, n)
                /\ \A i \in 1..n : file[i] = safe[i]
KeptInv == \A r \in acked : r.clean => named /\ \E n \in 1..Len(safe) : KeptAt(r, n)

\* What an audit-verify command has read is still so when it writes.
AnchorInv == \A a \in Auditors :
  /\ auditor[a].pos # "idle" => auditor[a].prev = checkpoint.now
  /\ auditor[a].pos = "verified" =>
       \/ auditor[a].prev \in {NoHash, auditor[a].last}
       \/ \E i \in 1..(Len(file) - 1) : file[i].id = auditor[a].prev /\ file[i].form \in Records

ChainInv == TypeOK /\ UpInv /\ (\A b \in Brokers : SinkInv(b)) /\ KeptInv

\* What appending does to the lines that are there: nothing but to the last one,
\* and to that one only if it is unfinished.
LEMMA AppendLineKeeps ==
  ASSUME NEW f \in Seq(Line), NEW l \in Line
  PROVE  /\ AppendLine(f, l) \in Seq(Line) /\ Len(AppendLine(f, l)) >= Len(f)
         /\ \A i \in 1..Len(f) : i < Len(f) \/ ~Unfinished(f) => AppendLine(f, l)[i] = f[i]
         /\ ~Unfinished(f) => AppendLine(f, l) = Append(f, l)
<1>0. Len(f) \in Nat
  OBVIOUS
<1>1. CASE Unfinished(f)
  <2>1. f # <<>> /\ Len(f) \in 1..Len(f)
    BY <1>1 DEF Unfinished
  <2> DEFINE e == [id |-> NoHash, prev |-> NoHash, form |-> IF l.form = "line" THEN "junk" ELSE "torn"]
  <2>2. e \in Line
    BY AuditAssumption DEF Line, NoHash, Hashes, Forms
  <2> DEFINE g == [f EXCEPT ![Len(f)] = e]
  <2>3. AppendLine(f, l) = g
    BY <1>1 DEF AppendLine
  <2> HIDE DEF e
  <2>4. /\ g \in Seq(Line) /\ Len(g) = Len(f)
        /\ \A i \in 1..Len(f) : g[i] = IF i = Len(f) THEN e ELSE f[i]
    BY <2>1, <2>2, ExceptSeq
  <2> HIDE DEF g
  <2>5. \A i \in 1..Len(f) : i < Len(f) => g[i] = f[i]
    BY <1>0, <2>4
  <2> QED BY <1>0, <1>1, <2>3, <2>4, <2>5
<1>2. CASE ~Unfinished(f)
  <2>1. AppendLine(f, l) = Append(f, l)
    BY <1>2 DEF AppendLine
  <2> QED BY <1>0, <1>2, <2>1
<1> QED BY <1>1, <1>2

\* A line cut short is a line.
LEMMA CutsAreLines ==
  ASSUME NEW l \in Line, NEW c \in Cuts(l)
  PROVE  c \in Line
BY AuditAssumption DEF Cuts, Line, NoHash, Hashes, Forms

\* Lines that verify stay verified in any file that begins with them.
LEMMA SettledStays ==
  ASSUME NEW f, NEW g, NEW n \in Nat \ {0}, Settled(f, n), \A i \in 1..n : g[i] = f[i]
  PROVE  Settled(g, n)
<1>1. \A i \in 1..n : HashBefore(g, i) = HashBefore(f, i)
  BY DEF HashBefore
<1> QED BY <1>1 DEF Settled

\* A chain with one record more.
LEMMA ChainGrows ==
  ASSUME NEW f \in Seq(Line), NEW l \in Line, Verifies(f), l.form = "line", l.prev = LastHash(f)
  PROVE  Verifies(Append(f, l)) /\ ~Unfinished(Append(f, l)) /\ LastHash(Append(f, l)) = l.id
<1> DEFINE g == Append(f, l)
<1>1. /\ Len(f) \in Nat /\ Len(g) = Len(f) + 1 /\ g[Len(f) + 1] = l
      /\ \A i \in 1..Len(f) : g[i] = f[i]
  OBVIOUS
<1> HIDE DEF g
<1>2. HashBefore(g, Len(f) + 1) = LastHash(f)
  BY <1>1 DEF HashBefore, LastHash
<1>3. \A i \in 1..Len(f) : HashBefore(g, i) = HashBefore(f, i)
  BY <1>1 DEF HashBefore
<1>4. Verifies(g)
  BY <1>1, <1>2, <1>3 DEF Verifies, Records
<1>5. LastHash(g) = l.id /\ ~Unfinished(g)
  BY <1>1 DEF LastHash, HashBefore, Unfinished
<1> QED BY <1>4, <1>5 DEF g

\* A chain that is not empty and ends in a whole line is settled as it is.
LEMMA WholeChainSettled ==
  ASSUME NEW f \in Seq(Line), Verifies(f), ~Unfinished(f), LastHash(f) # NoHash
  PROVE  Len(f) \in Nat \ {0} /\ f[Len(f)].id = LastHash(f) /\ Settled(f, Len(f))
<1>1. Len(f) \in Nat /\ Len(f) # 0
  BY DEF LastHash, HashBefore
<1>2. f # <<>> /\ f[Len(f)].form \in Records
  BY <1>1 DEF Verifies
<1>3. f[Len(f)].form = "line"
  BY <1>2 DEF Unfinished, Records
<1>4. f[Len(f)].id = LastHash(f)
  BY <1>1 DEF LastHash, HashBefore
<1> QED BY <1>1, <1>3, <1>4 DEF Settled, Verifies

\* A file cut off after n lines.
LEMMA CutOff ==
  ASSUME NEW f \in Seq(Line), NEW n \in 0..Len(f)
  PROVE  /\ SubSeq(f, 1, n) \in Seq(Line) /\ Len(SubSeq(f, 1, n)) = n
         /\ \A i \in 1..n : SubSeq(f, 1, n)[i] = f[i]
<1>1. n \in Int /\ 1 \in Int /\ \A i \in 1..n : f[i] \in Line
  OBVIOUS
<1>2. /\ SubSeq(f, 1, n) \in Seq(Line)
      /\ Len(SubSeq(f, 1, n)) = IF 1 <= n THEN n - 1 + 1 ELSE 0
      /\ \A i \in 1..(n - 1 + 1) : SubSeq(f, 1, n)[i] = f[1 + i - 1]
  BY <1>1, SubSeqProperties
<1> QED BY <1>2

\* What a power loss leaves begins with every settled line that was on disk.
LEMMA SurvivorsKeep ==
  ASSUME file \in Seq(Line), safe \in Seq(Line), Len(safe) <= Len(file), NEW f \in Survivors
  PROVE  /\ f \in Seq(Line)
         /\ \A n \in 1..Len(safe) :
              safe[n].form = "line" /\ (\A i \in 1..n : file[i] = safe[i])
                => n <= Len(f) /\ \A i \in 1..n : f[i] = safe[i]
<1>0. Len(safe) \in Nat /\ Len(file) \in Nat
  OBVIOUS
<1>1. CASE f = safe
  BY <1>0, <1>1
<1>2. CASE \E m \in Len(safe)..Len(file) : f = SubSeq(file, 1, m)
  <2>1. PICK m \in Len(safe)..Len(file) : f = SubSeq(file, 1, m)
    BY <1>2
  <2>2. m \in 0..Len(file)
    BY <1>0
  <2>3. f \in Seq(Line) /\ Len(f) = m /\ \A i \in 1..m : f[i] = file[i]
    BY <2>1, <2>2, CutOff
  <2> QED BY <1>0, <2>3
<1>3. CASE \E m \in Len(safe)..(Len(file) - 1) : \E l \in Cuts(file[m + 1]) : f = AppendLine(SubSeq(file, 1, m), l)
  <2>0. PICK m \in Len(safe)..(Len(file) - 1) : \E l \in Cuts(file[m + 1]) : f = AppendLine(SubSeq(file, 1, m), l)
    BY <1>3
  <2>1. PICK l \in Cuts(file[m + 1]) : f = AppendLine(SubSeq(file, 1, m), l)
    BY <2>0
  <2>2. m \in 0..Len(file) /\ m + 1 \in 1..Len(file)
    BY <1>0
  <2> DEFINE g == SubSeq(file, 1, m)
  <2>3. g \in Seq(Line) /\ Len(g) = m /\ \A i \in 1..m : g[i] = file[i]
    BY <2>2, CutOff
  <2>4. l \in Line
    <3>1. file[m + 1] \in Line
      BY <2>2
    <3> QED BY <3>1, CutsAreLines
  <2>5. f = AppendLine(g, l)
    BY <2>1
  <2> HIDE DEF g
  <2>6. /\ f \in Seq(Line) /\ Len(f) >= m
        /\ \A i \in 1..m : i < m \/ ~Unfinished(g) => f[i] = g[i]
    BY <2>3, <2>4, <2>5, AppendLineKeeps
  <2>7. ASSUME NEW n \in 1..Len(safe), safe[n].form = "line", \A i \in 1..n : file[i] = safe[i]
        PROVE  n <= Len(f) /\ \A i \in 1..n : f[i] = safe[i]
    <3>1. n <= m /\ n \in 1..m /\ Len(f) \in Nat
      BY <1>0, <2>6
    <3>2. n = m => ~Unfinished(g)
      BY <2>3, <2>7, <3>1 DEF Unfinished
    <3>3. \A i \in 1..n : i \in 1..m /\ (i < m \/ n = m)
      BY <1>0, <3>1
    <3> QED BY <2>3, <2>6, <2>7, <3>1, <3>2, <3>3
  <2> QED BY <2>6, <2>7
<1> QED BY <1>1, <1>2, <1>3 DEF Survivors

\* While one broker works the others are down: what they know stays as it is.
LEMMA OthersDown ==
  ASSUME UpInv, NEW b \in Brokers, sink' \in [Brokers -> Sink],
         ~At(b, "down") \/ LockFree(b),
         \A c \in Brokers : c # b => sink'[c] = sink[c]
  PROVE  /\ \A c, d \in Brokers : (~At(c, "down"))' /\ (~At(d, "down"))' => c = d
         /\ \A c \in Brokers : (~At(c, "down"))' => c = b
         /\ \A c \in Brokers : c # b => SinkInv(c)'
<1>1. \A c \in Brokers : c # b => At(c, "down")
  BY DEF UpInv, LockFree
<1>2. \A c \in Brokers : c # b => At(c, "down")'
  BY <1>1 DEF At
<1> QED BY <1>2 DEF SinkInv

\* Appending to the file leaves every record that was acknowledged.
LEMMA FileGrows ==
  ASSUME ChainInv, NEW l \in Line, file' \in {file, AppendLine(file, l)}, UNCHANGED <<safe, acked>>, named => named'
  PROVE  KeptInv' /\ file' \in Seq(Line) /\ Len(file') >= Len(file)
<1>0. file \in Seq(Line) /\ safe \in Seq(Line) /\ Len(file) \in Nat /\ Len(safe) \in Nat /\ Len(safe) <= Len(file)
  BY DEF ChainInv, TypeOK, UpInv
<1>1. /\ file' \in Seq(Line) /\ Len(file') >= Len(file)
      /\ \A i \in 1..Len(file) : i < Len(file) \/ ~Unfinished(file) => file'[i] = file[i]
  <2>1. CASE file' = file
    BY <1>0, <2>1
  <2>2. CASE file' = AppendLine(file, l)
    BY <1>0, <2>2, AppendLineKeeps
  <2> QED BY <2>1, <2>2
<1>2. ASSUME NEW r \in acked, NEW n \in 1..Len(safe), KeptAt(r, n) PROVE KeptAt(r, n)'
  <2>1. n \in 1..Len(file) /\ file[n].form = "line"
    BY <1>0, <1>2 DEF KeptAt, Settled
  <2>2. n = Len(file) => ~Unfinished(file)
    BY <2>1 DEF Unfinished
  <2>3. \A i \in 1..n : i \in 1..Len(file) /\ (i < Len(file) \/ n = Len(file))
    BY <1>0, <2>1
  <2>4. \A i \in 1..n : file'[i] = safe[i]
    BY <1>1, <1>2, <2>2, <2>3 DEF KeptAt
  <2> QED BY <2>4, <1>2 DEF KeptAt
<1>3. KeptInv'
  BY <1>2 DEF ChainInv, KeptInv
<1> QED BY <1>1, <1>3

\* No file, no broker: nothing to disagree.
LEMMA ChainStarts == Init => ChainInv
<1> SUFFICES ASSUME Init PROVE ChainInv
  OBVIOUS
<1> USE DEF Init
<1>1. TypeOK
  <2>1. NoHash \in Hashes /\ 1 \in 1..(MaxRecords + 1) /\ 0 \in 0..MaxFaults /\ 0 \in 0..MaxPowerLosses
    BY AuditAssumption DEF NoHash, Hashes
  <2>2. Down \in Sink /\ Idle \in Auditor
    BY <2>1 DEF Down, Sink, Idle, Auditor
  <2>3. <<>> \in Seq(Line)
    OBVIOUS
  <2>4. sink \in [Brokers -> Sink] /\ auditor \in [Auditors -> Auditor]
    BY <2>2
  <2>5. checkpoint \in [now: Hashes, safe: Hashes]
    BY <2>1
  <2> QED BY <2>1, <2>3, <2>4, <2>5 DEF TypeOK
<1>2. UpInv /\ KeptInv
  BY DEF UpInv, KeptInv, At, Down
<1>3. \A b \in Brokers : SinkInv(b)
  BY DEF SinkInv, At, Down
<1> QED BY <1>1, <1>2, <1>3 DEF ChainInv

\* The hash of the last line, if there is one.
LEMMA LastHashTyped == ASSUME NEW f \in Seq(Line) PROVE LastHash(f) \in Hashes
<1>1. Len(f) \in Nat /\ NoHash \in Hashes
  BY AuditAssumption DEF NoHash, Hashes
<1>2. CASE Len(f) = 0
  BY <1>1, <1>2 DEF LastHash, HashBefore
<1>3. CASE Len(f) # 0
  <2>1. f[Len(f)] \in Line
    BY <1>1, <1>3
  <2> QED BY <1>1, <1>3, <2>1 DEF LastHash, HashBefore, Line
<1> QED BY <1>2, <1>3

\* NewFileSink: the sink starts from the last hash of a file that verifies.
LEMMA StartKeeps == ASSUME ChainInv, NEW b \in Brokers, Start(b) PROVE ChainInv'
<1> /\ LockFree(b) /\ Verifies(file) /\ exists' = TRUE
    /\ UNCHANGED <<named, file, safe, auditor, checkpoint, acked, nextRecord, faults, losses>>
  BY DEF Start, counters
<1>t. TypeOK /\ UpInv
  BY DEF ChainInv
<1> DEFINE n == [pos |-> "ready", last |-> LastHash(file), need |-> ~exists, rec |-> NoHash,
                 clean |-> (exists => named) /\ ~Unfinished(file)]
<1>l. LastHash(file) \in Hashes
  BY <1>t, LastHashTyped DEF TypeOK
<1>n. n \in Sink /\ n.pos = "ready" /\ n.last = LastHash(file) /\ (n.need <=> ~exists)
      /\ (n.clean <=> (exists => named) /\ ~Unfinished(file))
  <2>1. exists \in BOOLEAN /\ named \in BOOLEAN /\ Unfinished(file) \in BOOLEAN /\ NoHash \in Hashes
    BY <1>t, AuditAssumption DEF TypeOK, Unfinished, NoHash, Hashes
  <2> QED BY <2>1, <1>l DEF Sink
<1>s. sink' = [sink EXCEPT ![b] = n]
  BY DEF Start
<1> HIDE DEF n
<1>u. sink' \in [Brokers -> Sink] /\ sink'[b] = n /\ \A c \in Brokers : c # b => sink'[c] = sink[c]
  BY <1>s, <1>n, <1>t DEF TypeOK
<1>1. TypeOK'
  BY <1>t, <1>u DEF TypeOK
<1>o. /\ \A c, d \in Brokers : (~At(c, "down"))' /\ (~At(d, "down"))' => c = d
      /\ \A c \in Brokers : c # b => SinkInv(c)'
  BY <1>t, <1>u, OthersDown
<1>2. UpInv'
  BY <1>t, <1>o DEF UpInv
<1>3. SinkInv(b)'
  BY <1>u, <1>n DEF SinkInv, At
<1>4. KeptInv'
  BY DEF ChainInv, KeptInv, KeptAt
<1> QED BY <1>1, <1>2, <1>3, <1>4, <1>o DEF ChainInv

\* Encode: the record follows the last one, or the sink is no longer clean.
LEMMA EncodeKeeps == ASSUME ChainInv, NEW b \in Brokers, Encode(b) PROVE ChainInv'
<1> DEFINE record == [id |-> nextRecord, prev |-> sink[b].last, form |-> "line"]
<1>b. /\ At(b, "ready") /\ ~At(b, "down") /\ nextRecord <= MaxRecords /\ nextRecord' = nextRecord + 1
      /\ UNCHANGED <<exists, named, safe, auditor, checkpoint, acked, losses>>
  BY DEF Encode, At
<1>t. TypeOK /\ UpInv /\ SinkInv(b)
  BY DEF ChainInv
<1>i. nextRecord \in RecordIds /\ nextRecord \in Hashes /\ nextRecord # NoHash /\ sink[b] \in Sink /\ sink[b].last \in Hashes
  BY <1>b, <1>t, AuditAssumption DEF TypeOK, RecordIds, Hashes, NoHash, Sink
<1>r. record \in Line /\ record.form = "line" /\ record.prev = sink[b].last /\ record.id = nextRecord
  BY <1>i DEF Line, Forms
<1>c. nextRecord' \in 1..(MaxRecords + 1)
  BY <1>b, <1>t, AuditAssumption DEF TypeOK
<1>1. CASE /\ file' = AppendLine(file, record)
           /\ sink' = [sink EXCEPT ![b].pos = "sync", ![b].rec = nextRecord]
           /\ UNCHANGED faults
  <2> DEFINE n == [sink[b] EXCEPT !.pos = "sync", !.rec = nextRecord]
  <2>n. n \in Sink /\ n.pos = "sync" /\ n.rec = nextRecord /\ n.clean = sink[b].clean /\ n.need = sink[b].need
    BY <1>i DEF Sink
  <2>s. sink' = [sink EXCEPT ![b] = n]
    BY <1>1
  <2> HIDE DEF n
  <2>u. sink' \in [Brokers -> Sink] /\ sink'[b] = n /\ \A c \in Brokers : c # b => sink'[c] = sink[c]
    BY <2>s, <2>n, <1>t DEF TypeOK
  <2>k. KeptInv' /\ file' \in Seq(Line) /\ Len(file') >= Len(file)
    BY <1>1, <1>b, <1>r, FileGrows
  <2>1. TypeOK'
    BY <1>1, <1>b, <1>c, <1>t, <2>u, <2>k DEF TypeOK
  <2>o. /\ \A c, d \in Brokers : (~At(c, "down"))' /\ (~At(d, "down"))' => c = d
        /\ \A c \in Brokers : (~At(c, "down"))' => c = b
        /\ \A c \in Brokers : c # b => SinkInv(c)'
    BY <1>t, <1>b, <2>u, OthersDown
  <2>2. UpInv'
    <3>1. Len(file') \in Nat /\ Len(safe) \in Nat /\ Len(file) \in Nat
      BY <2>k, <1>t DEF TypeOK
    <3> QED BY <1>t, <1>b, <2>o, <2>k, <3>1 DEF UpInv
  <2>3. SinkInv(b)'
    <3>1. (At(b, "sync"))' /\ ~(At(b, "syncDir"))' /\ ~(At(b, "ready"))' /\ sink'[b].rec \in RecordIds
      BY <2>u, <2>n, <1>i DEF At
    <3>2. ASSUME sink'[b].clean
          PROVE  /\ sink'[b].need \/ named
                 /\ Verifies(file') /\ ~Unfinished(file') /\ LastHash(file') = sink'[b].rec
      <4>1. /\ sink[b].need \/ named
            /\ Verifies(file) /\ ~Unfinished(file) /\ LastHash(file) = sink[b].last
        BY <3>2, <1>t, <1>b, <2>u, <2>n DEF SinkInv
      <4>2. file \in Seq(Line)
        BY <1>t DEF TypeOK
      <4>3. file' = Append(file, record)
        BY <1>1, <1>r, <4>1, <4>2, AppendLineKeeps
      <4> HIDE DEF record
      <4>4. Verifies(Append(file, record)) /\ ~Unfinished(Append(file, record)) /\ LastHash(Append(file, record)) = record.id
        BY <1>r, <4>1, <4>2, ChainGrows
      <4> QED BY <4>1, <4>3, <4>4, <1>r, <2>u, <2>n
    <3>3. Verifies(file)' = Verifies(file') /\ Unfinished(file)' = Unfinished(file') /\ LastHash(file)' = LastHash(file')
      OBVIOUS
    <3> QED BY <3>1, <3>2, <1>b DEF SinkInv
  <2> QED BY <2>1, <2>2, <2>3, <2>k, <2>o DEF ChainInv
<1>2. CASE /\ faults < MaxFaults /\ faults' = faults + 1
           /\ file' \in {file} \cup {AppendLine(file, l) : l \in Cuts(record)}
           /\ sink' = [sink EXCEPT ![b].clean = @ /\ file' = file]
  <2> DEFINE n == [sink[b] EXCEPT !.clean = @ /\ file' = file]
  <2>n. n \in Sink /\ n.pos = "ready" /\ n.last = sink[b].last /\ n.need = sink[b].need
        /\ (n.clean <=> sink[b].clean /\ file' = file)
    BY <1>i, <1>b DEF Sink, At
  <2>s. sink' = [sink EXCEPT ![b] = n]
    BY <1>2
  <2> HIDE DEF n
  <2>u. sink' \in [Brokers -> Sink] /\ sink'[b] = n /\ \A c \in Brokers : c # b => sink'[c] = sink[c]
    BY <2>s, <2>n, <1>t DEF TypeOK
  <2>l. PICK l \in Line : file' \in {file, AppendLine(file, l)}
    <3>1. CASE file' = file
      BY <3>1, <1>r
    <3>2. CASE \E l \in Cuts(record) : file' = AppendLine(file, l)
      <4>1. PICK l \in Cuts(record) : file' = AppendLine(file, l)
        BY <3>2
      <4>2. l \in Line
        BY <1>r, CutsAreLines
      <4> QED BY <4>1, <4>2
    <3> QED BY <1>2, <3>1, <3>2
  <2>k. KeptInv' /\ file' \in Seq(Line) /\ Len(file') >= Len(file)
    BY <2>l, <1>b, FileGrows
  <2>1. TypeOK'
    <3>1. faults' \in 0..MaxFaults
      BY <1>2, <1>t, AuditAssumption DEF TypeOK
    <3> QED BY <3>1, <1>b, <1>c, <1>t, <2>u, <2>k DEF TypeOK
  <2>o. /\ \A c, d \in Brokers : (~At(c, "down"))' /\ (~At(d, "down"))' => c = d
        /\ \A c \in Brokers : (~At(c, "down"))' => c = b
        /\ \A c \in Brokers : c # b => SinkInv(c)'
    BY <1>t, <1>b, <2>u, OthersDown
  <2>2. UpInv'
    <3>1. Len(file') \in Nat /\ Len(safe) \in Nat /\ Len(file) \in Nat
      BY <2>k, <1>t DEF TypeOK
    <3> QED BY <1>t, <1>b, <2>o, <2>k, <3>1 DEF UpInv
  <2>3. SinkInv(b)'
    <3>1. (At(b, "ready"))' /\ ~(At(b, "syncDir"))'
      BY <2>u, <2>n DEF At
    <3> QED BY <3>1, <1>t, <1>b, <2>u, <2>n DEF SinkInv, Verifies, Unfinished, LastHash, HashBefore
  <2> QED BY <2>1, <2>2, <2>3, <2>k, <2>o DEF ChainInv
<1> QED BY <1>1, <1>2 DEF Encode

\* With the file on disk, a record the sink accepts is settled for good.
LEMMA AcceptedKeeps ==
  ASSUME ChainInv, NEW b \in Brokers, ~At(b, "down"), ~At(b, "ready"), Accepted(b), safe' = file,
         named' \in BOOLEAN, named => named', sink[b].clean => named',
         UNCHANGED <<exists, file, auditor, checkpoint, nextRecord, faults, losses>>
  PROVE  ChainInv'
<1>t. TypeOK /\ UpInv /\ SinkInv(b) /\ KeptInv
  BY DEF ChainInv
<1>i. sink[b] \in Sink /\ sink[b].rec \in RecordIds /\ sink[b].rec \in Hashes /\ sink[b].rec # NoHash
  BY <1>t DEF TypeOK, SinkInv, RecordIds, Hashes, NoHash
<1> DEFINE n == [sink[b] EXCEPT !.pos = "ready", !.last = sink[b].rec, !.need = FALSE]
<1>n. n \in Sink /\ n.pos = "ready" /\ n.last = sink[b].rec /\ n.need = FALSE /\ n.clean = sink[b].clean
  BY <1>i DEF Sink
<1>k. PICK k \in [id : RecordIds, clean : BOOLEAN] :
    k.id = sink[b].rec /\ k.clean = sink[b].clean /\ acked' = acked \cup {k}
  <2>1. [id |-> sink[b].rec, clean |-> sink[b].clean] \in [id : RecordIds, clean : BOOLEAN]
    BY <1>i DEF Sink
  <2> QED BY <2>1 DEF Accepted
<1>s. sink' = [sink EXCEPT ![b] = n]
  BY DEF Accepted
<1> HIDE DEF n
<1>u. sink' \in [Brokers -> Sink] /\ sink'[b] = n /\ \A c \in Brokers : c # b => sink'[c] = sink[c]
  BY <1>s, <1>n, <1>t DEF TypeOK
<1>1. TypeOK'
  BY <1>t, <1>u, <1>k DEF TypeOK
<1>o. /\ \A c, d \in Brokers : (~At(c, "down"))' /\ (~At(d, "down"))' => c = d
      /\ \A c \in Brokers : (~At(c, "down"))' => c = b
      /\ \A c \in Brokers : c # b => SinkInv(c)'
  BY <1>t, <1>u, OthersDown
<1>2. UpInv'
  <2>1. Len(file) \in Nat
    BY <1>t DEF TypeOK
  <2> QED BY <1>t, <1>o, <2>1 DEF UpInv
<1>c. sink[b].clean => Verifies(file) /\ ~Unfinished(file) /\ LastHash(file) = sink[b].rec
  BY <1>t DEF SinkInv
<1>3. SinkInv(b)'
  <2>1. (At(b, "ready"))' /\ ~(At(b, "syncDir"))'
    BY <1>u, <1>n DEF At
  <2> QED BY <2>1, <1>c, <1>u, <1>n DEF SinkInv, Verifies, Unfinished, LastHash, HashBefore
<1>4. KeptInv'
  <2>0. file \in Seq(Line) /\ Len(file) \in Nat /\ safe \in Seq(Line) /\ Len(safe) \in Nat /\ Len(safe) <= Len(file)
    BY <1>t DEF TypeOK, UpInv
  <2>1. ASSUME NEW r \in acked, r.clean PROVE named' /\ \E m \in 1..Len(file) : KeptAt(r, m)'
    <3>1. PICK m \in 1..Len(safe) : KeptAt(r, m)
      BY <1>t, <2>1 DEF KeptInv
    <3>2. Settled(file, m) /\ file[m].id = r.id
      BY <3>1, <2>0, SettledStays DEF KeptAt
    <3>3. m \in 1..Len(file) /\ KeptAt(r, m)'
      BY <2>0, <3>2 DEF KeptAt, Settled, HashBefore
    <3> QED BY <3>3, <1>t, <2>1 DEF KeptInv
  <2>2. ASSUME k.clean PROVE named' /\ \E m \in 1..Len(file) : KeptAt(k, m)'
    <3>1. Len(file) \in Nat \ {0} /\ file[Len(file)].id = k.id /\ Settled(file, Len(file))
      BY <2>2, <1>c, <1>k, <1>i, <2>0, WholeChainSettled
    <3>2. \E m \in 1..Len(file) : file[m].id = k.id /\ Settled(file, m)
      BY <3>1
    <3>3. PICK m \in 1..Len(file) : file[m].id = k.id /\ Settled(file, m)
      BY <3>2
    <3>4. KeptAt(k, m)'
      BY <3>3 DEF KeptAt, Settled, HashBefore
    <3> QED BY <3>4, <2>2, <1>k
  <2> QED BY <2>1, <2>2, <1>k DEF KeptInv
<1> QED BY <1>1, <1>2, <1>3, <1>4, <1>o DEF ChainInv

\* An error after the record is in the file: the sink is clean no more.
LEMMA AbandonedKeeps ==
  ASSUME ChainInv, NEW b \in Brokers, ~At(b, "down"), Abandoned(b), faults' \in 0..MaxFaults,
         UNCHANGED <<exists, named, file, safe, auditor, checkpoint, nextRecord, losses>>
  PROVE  ChainInv'
<1>t. TypeOK /\ UpInv /\ KeptInv /\ acked' = acked
  BY DEF ChainInv, Abandoned
<1> DEFINE n == [sink[b] EXCEPT !.pos = "ready", !.clean = FALSE]
<1>n. n \in Sink /\ n.pos = "ready" /\ n.clean = FALSE
  BY <1>t DEF TypeOK, Sink
<1>s. sink' = [sink EXCEPT ![b] = n]
  BY DEF Abandoned
<1> HIDE DEF n
<1>u. sink' \in [Brokers -> Sink] /\ sink'[b] = n /\ \A c \in Brokers : c # b => sink'[c] = sink[c]
  BY <1>s, <1>n, <1>t DEF TypeOK
<1>1. TypeOK'
  BY <1>t, <1>u DEF TypeOK
<1>o. /\ \A c, d \in Brokers : (~At(c, "down"))' /\ (~At(d, "down"))' => c = d
      /\ \A c \in Brokers : (~At(c, "down"))' => c = b
      /\ \A c \in Brokers : c # b => SinkInv(c)'
  BY <1>t, <1>u, OthersDown
<1>2. UpInv'
  BY <1>t, <1>o DEF UpInv
<1>3. SinkInv(b)'
  BY <1>u, <1>n DEF SinkInv, At
<1>4. KeptInv'
  BY <1>t DEF KeptInv, KeptAt
<1> QED BY <1>1, <1>2, <1>3, <1>4, <1>o DEF ChainInv

\* Sync: the record is on disk, and accepted unless the directory is to be synced.
LEMMA SyncKeeps == ASSUME ChainInv, NEW b \in Brokers, Sync(b) PROVE ChainInv'
<1> /\ At(b, "sync") /\ ~At(b, "down") /\ ~At(b, "ready") /\ ~At(b, "syncDir")
    /\ UNCHANGED <<exists, named, file, auditor, checkpoint>>
  BY DEF Sync, At
<1>t. TypeOK /\ UpInv /\ SinkInv(b) /\ KeptInv
  BY DEF ChainInv
<1>1. CASE safe' = file /\ ~sink[b].need /\ Accepted(b) /\ UNCHANGED counters
  <2>1. named \in BOOLEAN /\ (sink[b].clean => named)
    BY <1>1, <1>t DEF SinkInv, TypeOK
  <2> QED BY <1>1, <2>1, AcceptedKeeps DEF counters
<1>2. CASE Abandoned(b) /\ Fail /\ UNCHANGED safe
  <2>1. faults' \in 0..MaxFaults /\ UNCHANGED <<nextRecord, losses>>
    BY <1>2, <1>t, AuditAssumption DEF Fail, TypeOK
  <2> QED BY <1>2, <2>1, AbandonedKeeps
<1>3. CASE safe' = file /\ sink[b].need /\ sink' = [sink EXCEPT ![b].pos = "syncDir"] /\ UNCHANGED acked /\ UNCHANGED counters
  <2> DEFINE n == [sink[b] EXCEPT !.pos = "syncDir"]
  <2>n. n \in Sink /\ n.pos = "syncDir" /\ n.rec = sink[b].rec /\ n.need = sink[b].need /\ n.clean = sink[b].clean
    BY <1>t DEF TypeOK, Sink
  <2>s. sink' = [sink EXCEPT ![b] = n]
    BY <1>3
  <2> HIDE DEF n
  <2>u. sink' \in [Brokers -> Sink] /\ sink'[b] = n /\ \A c \in Brokers : c # b => sink'[c] = sink[c]
    BY <2>s, <2>n, <1>t DEF TypeOK
  <2>1. TypeOK'
    BY <1>3, <1>t, <2>u DEF TypeOK, counters
  <2>o. /\ \A c, d \in Brokers : (~At(c, "down"))' /\ (~At(d, "down"))' => c = d
        /\ \A c \in Brokers : (~At(c, "down"))' => c = b
        /\ \A c \in Brokers : c # b => SinkInv(c)'
    BY <1>t, <2>u, OthersDown
  <2>0. file \in Seq(Line) /\ Len(file) \in Nat /\ safe \in Seq(Line) /\ Len(safe) \in Nat /\ Len(safe) <= Len(file)
    BY <1>t DEF TypeOK, UpInv
  <2>2. UpInv'
    BY <1>3, <1>t, <2>0, <2>o DEF UpInv
  <2>3. SinkInv(b)'
    <3>1. (At(b, "syncDir"))' /\ ~(At(b, "ready"))'
      BY <2>u, <2>n DEF At
    <3> QED BY <3>1, <1>3, <1>t, <2>u, <2>n DEF SinkInv, Verifies, Unfinished, LastHash, HashBefore
  <2>4. KeptInv'
    <3> SUFFICES ASSUME NEW r \in acked, r.clean PROVE named /\ \E m \in 1..Len(file) : KeptAt(r, m)'
      BY <1>3 DEF KeptInv
    <3>1. PICK m \in 1..Len(safe) : KeptAt(r, m)
      BY <1>t DEF KeptInv
    <3>2. Settled(file, m) /\ file[m].id = r.id
      BY <3>1, <2>0, SettledStays DEF KeptAt
    <3>3. m \in 1..Len(file) /\ KeptAt(r, m)'
      BY <2>0, <3>2, <1>3 DEF KeptAt, Settled, HashBefore
    <3> QED BY <3>3, <1>t DEF KeptInv
  <2> QED BY <2>1, <2>2, <2>3, <2>4, <2>o DEF ChainInv
<1> QED BY <1>1, <1>2, <1>3 DEF Sync

\* SyncDir: the file's name is on disk too.
LEMMA SyncDirKeeps == ASSUME ChainInv, NEW b \in Brokers, SyncDir(b) PROVE ChainInv'
<1> /\ At(b, "syncDir") /\ ~At(b, "down") /\ ~At(b, "ready")
    /\ UNCHANGED <<exists, file, safe, auditor, checkpoint>>
  BY DEF SyncDir, At
<1>t. TypeOK /\ UpInv /\ SinkInv(b)
  BY DEF ChainInv
<1>1. CASE named' = TRUE /\ Accepted(b) /\ UNCHANGED counters
  <2>1. safe' = file
    BY <1>t DEF SinkInv
  <2> QED BY <1>1, <2>1, AcceptedKeeps DEF counters
<1>2. CASE Abandoned(b) /\ Fail /\ UNCHANGED named
  <2>1. faults' \in 0..MaxFaults /\ UNCHANGED <<nextRecord, losses>>
    BY <1>2, <1>t, AuditAssumption DEF Fail, TypeOK
  <2> QED BY <1>2, <2>1, AbandonedKeeps
<1> QED BY <1>1, <1>2 DEF SyncDir

\* The end of a process leaves the file as it is.
LEMMA StopKeeps == ASSUME ChainInv, NEW b \in Brokers, Stop(b) PROVE ChainInv'
<1> /\ ~At(b, "down") /\ sink' = [sink EXCEPT ![b] = Down]
    /\ UNCHANGED <<exists, named, file, safe, auditor, checkpoint, acked, nextRecord, faults, losses>>
  BY DEF Stop, disk, counters
<1>t. TypeOK /\ UpInv
  BY DEF ChainInv
<1>d. Down \in Sink /\ Down.pos = "down"
  BY AuditAssumption DEF Down, Sink, NoHash, Hashes
<1>u. sink' \in [Brokers -> Sink] /\ sink'[b] = Down /\ \A c \in Brokers : c # b => sink'[c] = sink[c]
  BY <1>d, <1>t DEF TypeOK
<1>1. TypeOK'
  BY <1>t, <1>u DEF TypeOK
<1>o. /\ \A c, d \in Brokers : (~At(c, "down"))' /\ (~At(d, "down"))' => c = d
      /\ \A c \in Brokers : (~At(c, "down"))' => c = b
      /\ \A c \in Brokers : c # b => SinkInv(c)'
  BY <1>t, <1>u, OthersDown
<1>2. UpInv'
  BY <1>t, <1>o DEF UpInv
<1>3. SinkInv(b)'
  BY <1>u, <1>d DEF SinkInv, At
<1>4. KeptInv'
  BY DEF ChainInv, KeptInv, KeptAt
<1> QED BY <1>1, <1>2, <1>3, <1>4, <1>o DEF ChainInv

\* audit-verify changes nothing but its own state and the checkpoint.
LEMMA AuditorKeeps ==
  ASSUME ChainInv, NEW a \in Auditors, ReadCheckpoint(a) \/ Verify(a) \/ WriteCheckpoint(a)
  PROVE  ChainInv'
<1> UNCHANGED <<exists, named, file, safe, sink, acked, nextRecord, losses>>
  BY DEF ReadCheckpoint, Verify, WriteCheckpoint, disk, counters
<1>t. TypeOK /\ auditor[a] \in Auditor
  BY DEF ChainInv, TypeOK
<1>l. LastHash(file) \in Hashes /\ Idle \in Auditor
  BY <1>t, LastHashTyped, AuditAssumption DEF TypeOK, Idle, Auditor, NoHash, Hashes
<1>1. TypeOK'
  <2>1. CASE ReadCheckpoint(a)
    <3>1. [auditor[a] EXCEPT !.pos = "anchored", !.prev = checkpoint.now] \in Auditor
      BY <1>t DEF TypeOK, Auditor
    <3>2. auditor' = [auditor EXCEPT ![a] = [auditor[a] EXCEPT !.pos = "anchored", !.prev = checkpoint.now]]
      BY <2>1 DEF ReadCheckpoint
    <3>3. auditor' \in [Auditors -> Auditor]
      BY <3>1, <3>2, <1>t DEF TypeOK
    <3> QED BY <2>1, <3>3, <1>t DEF ReadCheckpoint, TypeOK, counters
  <2>2. CASE Verify(a)
    <3>1. [auditor[a] EXCEPT !.pos = "verified", !.last = LastHash(file)] \in Auditor
      BY <1>t, <1>l DEF Auditor
    <3>2. PICK n \in Auditor : auditor' = [auditor EXCEPT ![a] = n]
      <4>1. CASE exists /\ VerifiesAnchored(file, auditor[a].prev)
        BY <2>2, <3>1, <4>1 DEF Verify
      <4>2. CASE ~(exists /\ VerifiesAnchored(file, auditor[a].prev))
        BY <2>2, <1>l, <4>2 DEF Verify
      <4> QED BY <4>1, <4>2
    <3>3. auditor' \in [Auditors -> Auditor]
      BY <3>2, <1>t DEF TypeOK
    <3> QED BY <2>2, <3>3, <1>t DEF Verify, TypeOK, counters
  <2>3. CASE WriteCheckpoint(a)
    <3>1. auditor' \in [Auditors -> Auditor]
      BY <2>3, <1>l, <1>t DEF WriteCheckpoint, TypeOK
    <3>2. auditor[a].last \in Hashes
      BY <1>t DEF Auditor
    <3>3. checkpoint' \in [now : Hashes, safe : Hashes]
      <4>1. /\ checkpoint \in [now : Hashes, safe : Hashes]
            /\ [checkpoint EXCEPT !.now = auditor[a].last] \in [now : Hashes, safe : Hashes]
            /\ [now |-> auditor[a].last, safe |-> auditor[a].last] \in [now : Hashes, safe : Hashes]
        BY <3>2, <1>t DEF TypeOK
      <4> QED BY <2>3, <4>1 DEF WriteCheckpoint
    <3>4. faults' \in 0..MaxFaults
      BY <2>3, <1>t, AuditAssumption DEF WriteCheckpoint, TypeOK
    <3> QED BY <3>1, <3>3, <3>4, <1>t DEF TypeOK
  <2> QED BY <2>1, <2>2, <2>3
<1> QED BY <1>1 DEF ChainInv, UpInv, SinkInv, KeptInv, KeptAt, At, Verifies, Unfinished, LastHash, HashBefore

\* A power loss keeps every acknowledged record, and whatever else it keeps is
\* then on disk.
LEMMA PowerLossKeeps == ASSUME ChainInv, PowerLoss PROVE ChainInv'
<1> /\ losses < MaxPowerLosses /\ losses' = losses + 1
    /\ named' = exists' /\ safe' = file' /\ sink' = [b \in Brokers |-> Down] /\ auditor' = [a \in Auditors |-> Idle]
    /\ UNCHANGED <<acked, nextRecord, faults>>
  BY DEF PowerLoss
<1>t. TypeOK /\ UpInv /\ KeptInv
  BY DEF ChainInv
<1>0. file \in Seq(Line) /\ safe \in Seq(Line) /\ Len(safe) <= Len(file)
  BY <1>t DEF TypeOK, UpInv
<1>f. exists' \in BOOLEAN /\ file' \in Seq(Line)
  <2>1. CASE exists' = exists /\ file' \in Survivors
    <3>1. \A f \in Survivors : f \in Seq(Line)
      BY <1>0, SurvivorsKeep
    <3> QED BY <2>1, <3>1, <1>t DEF TypeOK
  <2>2. CASE ~named /\ exists' = FALSE /\ file' = <<>>
    <3>1. <<>> \in Seq(Line)
      OBVIOUS
    <3> QED BY <2>2, <3>1
  <2> QED BY <2>1, <2>2 DEF PowerLoss
<1>d. Down \in Sink /\ Down.pos = "down" /\ Idle \in Auditor
  BY AuditAssumption DEF Down, Sink, Idle, Auditor, NoHash, Hashes
<1>1. TypeOK'
  <2>1. sink' \in [Brokers -> Sink] /\ auditor' \in [Auditors -> Auditor]
    BY <1>d
  <2>2. checkpoint' \in [now : Hashes, safe : Hashes]
    BY <1>t DEF PowerLoss, TypeOK
  <2>3. losses' \in 0..MaxPowerLosses
    BY <1>t, AuditAssumption DEF TypeOK
  <2> QED BY <1>f, <1>t, <2>1, <2>2, <2>3 DEF TypeOK
<1>2. \A b \in Brokers : At(b, "down")'
  BY <1>d DEF At
<1>3. UpInv' /\ \A b \in Brokers : SinkInv(b)'
  <2>1. Len(file') \in Nat
    BY <1>f
  <2> QED BY <1>2, <2>1 DEF UpInv, SinkInv
<1>4. KeptInv'
  <2> SUFFICES ASSUME NEW r \in acked, r.clean PROVE named' /\ \E n \in 1..Len(file') : KeptAt(r, n)'
    BY DEF KeptInv
  <2>1. named /\ exists
    BY <1>t DEF KeptInv, UpInv
  <2>2. exists' = exists /\ file' \in Survivors
    BY <2>1 DEF PowerLoss
  <2>3. PICK n \in 1..Len(safe) : KeptAt(r, n)
    BY <1>t DEF KeptInv
  <2>4. n <= Len(file') /\ \A i \in 1..n : file'[i] = safe[i]
    BY <1>0, <2>2, <2>3, SurvivorsKeep DEF KeptAt, Settled
  <2>5. n \in 1..Len(file') /\ n \in Nat \ {0}
    BY <1>0, <1>f, <2>4
  <2>6. Settled(file', n) /\ file'[n].id = r.id
    BY <2>3, <2>4, <2>5, SettledStays DEF KeptAt
  <2>7. KeptAt(r, n)'
    BY <2>6 DEF KeptAt, Settled, HashBefore
  <2> QED BY <2>1, <2>2, <2>5, <2>7
<1> QED BY <1>1, <1>3, <1>4 DEF ChainInv

\* Every step of brokers, auditors and the power supply keeps the invariant.
LEMMA ChainStep == ChainInv /\ [Next]_vars => ChainInv'
<1> SUFFICES ASSUME ChainInv, [Next]_vars PROVE ChainInv'
  OBVIOUS
<1>1. CASE UNCHANGED vars
  BY <1>1 DEF vars, disk, counters, ChainInv, TypeOK, UpInv, SinkInv, KeptInv, KeptAt, At, Verifies, Unfinished,
       LastHash, HashBefore
<1> QED BY <1>1, StartKeeps, EncodeKeeps, SyncKeeps, SyncDirKeeps, StopKeeps, AuditorKeeps, PowerLossKeeps DEF Next

\* The audit file, its sinks and what they acknowledged, in every state.
THEOREM ChainInvariant == Spec => []ChainInv
BY ChainStarts, ChainStep, PTL DEF Spec

\* CleanChain (FileSink.Write): a sink of which no write failed appends to the
\* last hash of a file that verifies, whatever other brokers try.
THEOREM CleanChainHolds == Spec => []CleanChain
<1>1. ChainInv => CleanChain
  BY DEF ChainInv, CleanChain, SinkInv
<1> QED BY <1>1, ChainInvariant, PTL

\* AckedRecordsKept (FileSink.Write, verifyFile): a record that Write accepted
\* stays in the part of the file that verifies.
THEOREM AckedRecordsKeptHolds == Spec => []AckedRecordsKept
<1>1. ASSUME ChainInv, NEW r \in acked, r.clean
      PROVE  \E n \in 1..Len(file) : file[n].id = r.id /\ Verifies(SubSeq(file, 1, n))
  <2>0. file \in Seq(Line) /\ Len(file) \in Nat /\ safe \in Seq(Line) /\ Len(safe) \in Nat /\ Len(safe) <= Len(file)
    BY <1>1 DEF ChainInv, TypeOK, UpInv
  <2>1. PICK n \in 1..Len(safe) : KeptAt(r, n)
    BY <1>1 DEF ChainInv, KeptInv
  <2>2. n \in 1..Len(file) /\ n \in 0..Len(file) /\ n \in Nat \ {0}
    BY <2>0
  <2>3. Settled(file, n) /\ file[n].id = r.id
    BY <2>1, <2>2, SettledStays DEF KeptAt
  <2> DEFINE g == SubSeq(file, 1, n)
  <2>4. Len(g) = n /\ \A i \in 1..n : g[i] = file[i]
    BY <2>0, <2>2, CutOff
  <2> HIDE DEF g
  <2>5. Settled(g, n)
    BY <2>2, <2>3, <2>4, SettledStays
  <2>6. Verifies(g)
    BY <2>4, <2>5 DEF Verifies, Settled
  <2> QED BY <2>2, <2>3, <2>6 DEF g
<1>2. ChainInv => AckedRecordsKept
  BY <1>1 DEF AckedRecordsKept
<1> QED BY <1>2, ChainInvariant, PTL

------------------------------------------------------------------------------
(* The checkpoint, with one audit-verify command at a time *)

OneAuditor == \A a, c \in Auditors : a = c

\* Lines before the last one are never touched by an append.
LEMMA InnerLinesStay ==
  ASSUME file \in Seq(Line), NEW l \in Line, file' \in {file, AppendLine(file, l)},
         NEW i \in 1..(Len(file) - 1)
  PROVE  i \in 1..(Len(file') - 1) /\ file'[i] = file[i]
<1>0. Len(file) \in Nat /\ i \in 1..Len(file) /\ i < Len(file)
  OBVIOUS
<1>1. CASE file' = file
  BY <1>1
<1>2. CASE file' = AppendLine(file, l)
  <2>1. file' \in Seq(Line) /\ Len(file') >= Len(file) /\ file'[i] = file[i]
    BY <1>0, <1>2, AppendLineKeeps
  <2>2. Len(file') \in Nat
    BY <2>1
  <2> QED BY <1>0, <2>1, <2>2
<1> QED BY <1>1, <1>2

\* What a broker's step may do to the file.
LEMMA BrokerAppends ==
  ASSUME ChainInv, NEW b \in Brokers, Start(b) \/ Encode(b) \/ Sync(b) \/ SyncDir(b) \/ Stop(b)
  PROVE  UNCHANGED <<auditor, checkpoint>> /\ (file' = file \/ \E l \in Line : file' = AppendLine(file, l))
<1>1. CASE Start(b) \/ Sync(b) \/ SyncDir(b) \/ Stop(b)
  BY <1>1 DEF Start, Sync, SyncDir, Stop, disk
<1>2. CASE Encode(b)
  <2> DEFINE record == [id |-> nextRecord, prev |-> sink[b].last, form |-> "line"]
  <2>1. record \in Line
    <3>1. nextRecord \in Hashes /\ sink[b].last \in Hashes
      BY <1>2, AuditAssumption DEF ChainInv, TypeOK, Encode, Hashes, Sink
    <3> QED BY <3>1 DEF Line, Forms
  <2>2. file' = file \/ file' = AppendLine(file, record) \/ \E l \in Cuts(record) : file' = AppendLine(file, l)
    BY <1>2 DEF Encode
  <2>3. UNCHANGED <<auditor, checkpoint>>
    BY <1>2 DEF Encode
  <2> HIDE DEF record
  <2>4. \A l \in Cuts(record) : l \in Line
    BY <2>1, CutsAreLines
  <2> QED BY <2>1, <2>2, <2>3, <2>4
<1> QED BY <1>1, <1>2

\* What the command has read stays so until it writes: the old checkpoint is the
\* last hash it read, or a line no append reaches.
LEMMA AnchorStep == ASSUME OneAuditor, ChainInv, AnchorInv, [Next]_vars PROVE AnchorInv'
<1>t. TypeOK /\ file \in Seq(Line) /\ Len(file) \in Nat
  BY DEF ChainInv, TypeOK
<1>1. CASE UNCHANGED vars
  BY <1>1 DEF vars, disk, AnchorInv
<1>2. ASSUME NEW b \in Brokers, Start(b) \/ Encode(b) \/ Sync(b) \/ SyncDir(b) \/ Stop(b) PROVE AnchorInv'
  <2>0. UNCHANGED <<auditor, checkpoint>> /\ (file' = file \/ \E l \in Line : file' = AppendLine(file, l))
    BY <1>2, BrokerAppends
  <2>1. CASE file' = file
    BY <2>0, <2>1 DEF AnchorInv
  <2>2. CASE \E l \in Line : file' = AppendLine(file, l)
    <3>1. PICK l \in Line : file' = AppendLine(file, l)
      BY <2>2
    <3>2. \A i \in 1..(Len(file) - 1) : i \in 1..(Len(file') - 1) /\ file'[i] = file[i]
      BY <1>t, <3>1, InnerLinesStay
    <3> QED BY <2>0, <3>2 DEF AnchorInv
  <2> QED BY <2>0, <2>1, <2>2
<1>3. ASSUME NEW a \in Auditors, ReadCheckpoint(a) PROVE AnchorInv'
  <2>1. UNCHANGED <<file, checkpoint>> /\ auditor' = [auditor EXCEPT ![a].pos = "anchored", ![a].prev = checkpoint.now]
    BY <1>3 DEF ReadCheckpoint, disk
  <2>2. auditor \in [Auditors -> Auditor]
    BY <1>t DEF TypeOK
  <2>3. auditor'[a].pos = "anchored" /\ auditor'[a].prev = checkpoint.now
    BY <2>1, <2>2 DEF Auditor
  <2>4. \A c \in Auditors : c = a
    BY DEF OneAuditor
  <2> QED BY <2>1, <2>3, <2>4 DEF AnchorInv
<1>4. ASSUME NEW a \in Auditors, Verify(a) PROVE AnchorInv'
  <2>0. UNCHANGED <<file, checkpoint>> /\ auditor[a].pos = "anchored" /\ auditor[a].prev = checkpoint.now
    BY <1>4 DEF Verify, disk, AnchorInv
  <2>1. auditor \in [Auditors -> Auditor] /\ auditor[a] \in Auditor
    BY <1>t DEF TypeOK
  <2>2. \A c \in Auditors : c = a
    BY DEF OneAuditor
  <2>3. CASE exists /\ VerifiesAnchored(file, auditor[a].prev)
    <3>1. auditor' = [auditor EXCEPT ![a] = [@ EXCEPT !.pos = "verified", !.last = LastHash(file)]]
      BY <1>4, <2>3 DEF Verify
    <3>2. auditor'[a].prev = checkpoint.now /\ auditor'[a].last = LastHash(file)
      BY <2>0, <2>1, <3>1 DEF Auditor
    <3>3. checkpoint.now # NoHash => Holds(file, checkpoint.now)
      BY <2>0, <2>3 DEF VerifiesAnchored
    <3>4. ASSUME NEW i \in 1..Len(file), i = Len(file) PROVE file[i].id = LastHash(file)
      BY <3>4, <1>t DEF LastHash, HashBefore
    <3>5. \/ checkpoint.now \in {NoHash, LastHash(file)}
          \/ \E i \in 1..(Len(file) - 1) : file[i].id = checkpoint.now /\ file[i].form \in Records
      <4> SUFFICES ASSUME checkpoint.now # NoHash, checkpoint.now # LastHash(file)
                   PROVE  \E i \in 1..(Len(file) - 1) : file[i].id = checkpoint.now /\ file[i].form \in Records
        OBVIOUS
      <4>1. PICK i \in 1..Len(file) : file[i].id = checkpoint.now /\ file[i].form \in Records
        BY <3>3 DEF Holds
      <4>2. i # Len(file)
        BY <3>4, <4>1
      <4>3. i \in 1..(Len(file) - 1)
        BY <1>t, <4>2
      <4> QED BY <4>1, <4>3
    <3> QED BY <2>0, <2>2, <3>2, <3>5 DEF AnchorInv
  <2>4. CASE ~(exists /\ VerifiesAnchored(file, auditor[a].prev))
    <3>1. auditor' = [auditor EXCEPT ![a] = Idle]
      BY <1>4, <2>4 DEF Verify
    <3>2. auditor'[a].pos = "idle"
      BY <2>1, <3>1 DEF Idle
    <3> QED BY <2>2, <3>2 DEF AnchorInv
  <2> QED BY <2>3, <2>4
<1>5. ASSUME NEW a \in Auditors, WriteCheckpoint(a) PROVE AnchorInv'
  <2>1. auditor'[a].pos = "idle"
    BY <1>5, <1>t DEF WriteCheckpoint, TypeOK, Idle
  <2>2. \A c \in Auditors : c = a
    BY DEF OneAuditor
  <2> QED BY <2>1, <2>2 DEF AnchorInv
<1>6. CASE PowerLoss
  <2>1. \A a \in Auditors : auditor'[a].pos = "idle"
    BY <1>6 DEF PowerLoss, Idle
  <2> QED BY <2>1 DEF AnchorInv
<1> QED BY <1>1, <1>2, <1>3, <1>4, <1>5, <1>6 DEF Next

\* CheckpointContinuity (audit-verify --write-checkpoint): with one command at a
\* time the checkpoint moves only to a chain that holds the old one, however
\* many appends, failures and restarts come between its reads and its write.
THEOREM CheckpointContinuityHolds == OneAuditor /\ Spec => CheckpointContinuity
<1> SUFFICES ASSUME OneAuditor PROVE Spec => CheckpointContinuity
  OBVIOUS
<1>1. Init => AnchorInv
  BY DEF Init, AnchorInv, Idle
<1>2. ChainInv /\ AnchorInv /\ [Next]_vars => AnchorInv'
  BY AnchorStep
<1>3. ASSUME ChainInv, AnchorInv, [Next]_vars
      PROVE  [checkpoint'.now # checkpoint.now =>
                 \/ checkpoint.now = NoHash \/ Holds(file, checkpoint.now) \/ losses' > losses]_vars
  <2> SUFFICES ASSUME checkpoint'.now # checkpoint.now
               PROVE  \/ checkpoint.now = NoHash \/ Holds(file, checkpoint.now) \/ losses' > losses
    OBVIOUS
  <2>0. checkpoint' # checkpoint /\ Len(file) \in Nat /\ losses \in Nat
    BY <1>3, AuditAssumption DEF ChainInv, TypeOK
  <2>1. (\E a \in Auditors : WriteCheckpoint(a)) \/ PowerLoss
    <3>1. ~UNCHANGED vars
      BY <2>0 DEF vars
    <3>2. ~(\E b \in Brokers : Start(b) \/ Encode(b) \/ Sync(b) \/ SyncDir(b) \/ Stop(b))
      BY <1>3, <2>0, BrokerAppends
    <3>3. ~(\E a \in Auditors : ReadCheckpoint(a) \/ Verify(a))
      BY <2>0 DEF ReadCheckpoint, Verify
    <3> QED BY <1>3, <3>1, <3>2, <3>3 DEF Next
  <2>2. CASE PowerLoss
    BY <2>0, <2>2 DEF PowerLoss
  <2>3. CASE \E a \in Auditors : WriteCheckpoint(a)
    <3>1. PICK a \in Auditors : WriteCheckpoint(a)
      BY <2>3
    <3>2. checkpoint'.now = auditor[a].last
      <4>1. checkpoint \in [now : Hashes, safe : Hashes]
        BY <1>3 DEF ChainInv, TypeOK
      <4> QED BY <3>1, <4>1, <2>0 DEF WriteCheckpoint
    <3>3. /\ auditor[a].prev = checkpoint.now
          /\ \/ auditor[a].prev \in {NoHash, auditor[a].last}
             \/ \E i \in 1..(Len(file) - 1) : file[i].id = auditor[a].prev /\ file[i].form \in Records
      BY <1>3, <3>1 DEF AnchorInv, WriteCheckpoint
    <3>4. \A i \in 1..(Len(file) - 1) : i \in 1..Len(file)
      BY <2>0
    <3> QED BY <3>2, <3>3, <3>4 DEF Holds
  <2> QED BY <2>1, <2>2, <2>3
<1> QED BY <1>1, <1>2, <1>3, ChainInvariant, PTL DEF Spec, CheckpointContinuity
==============================================================================
