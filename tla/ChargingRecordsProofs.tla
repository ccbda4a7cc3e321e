------------------------ MODULE ChargingRecordsProofs ------------------------
(***************************************************************************)
(* Charging data records on their way to the table, for any number of      *)
(* instances, sessions and records, in every configuration: which record   *)
(* can vanish and what took it, and what a gap in the sequence numbers of  *)
(* a session can mean.                                                     *)
(***************************************************************************)
EXTENDS ChargingRecords, SequenceTheorems, WellFoundedInduction, TLAPS

OneRowPerKey == \A r, s \in table : Key(r) = Key(s) => r = s

\* What is stored and what is lost was written.
DorisInv ==
    /\ mode \in Modes /\ rare \in 0 .. MaxRare
    /\ written \subseteq Row /\ lost \subseteq {"doris", "bus"} \X written
    /\ table \subseteq written /\ aged \subseteq table /\ archive \subseteq written
    /\ overwritten \subseteq written /\ unarchived \subseteq written
    /\ OneRowPerKey

\* Buffers and queues hold what their own instance wrote.
BuffersInv ==
    /\ pending \in [Instance -> Seq(written)]
    /\ \A i \in Instance : /\ Len(pending[i]) < mode.batch
                           /\ ~mode.direct => pending[i] = <<>>
                           /\ \A r \in ToSet(pending[i]) : r.by = i

QueuesInv ==
    /\ topic \in Seq(written) /\ outq \in [Instance -> Seq(written)]
    /\ \A i \in Instance : \A r \in ToSet(outq[i]) : r.by = i
    /\ ~mode.bus => topic = <<>> /\ \A i \in Instance : outq[i] = <<>>

ProcessInv ==
    /\ phase \in [Instance -> {"serving", "stopping", "flushed", "down"}]
    /\ linked \in [Instance -> BOOLEAN]
    /\ sweep \in [Instance -> SUBSET Row]

\* What a request has yet to write comes after everything its session has written.
RequestsInOrder ==
    /\ request \in [Ref -> [at : Instance \union {None}, rows : Seq(Row)]]
    /\ next \in [Ref -> 0 .. MaxSeq + 1]
    /\ \A w \in written : w.seq < next[w.ref]
    /\ \A c \in Ref : \A r \in ToSet(request[c].rows) :
          /\ request[c].at \in Instance
          /\ r.ref = c /\ r.by = request[c].at /\ r.seq < next[c]
          /\ \A w \in written : w.ref = c => w.seq <= r.seq
          /\ \A q \in ToSet(request[c].rows) : q.seq = r.seq

\* The records of a session that one instance writes keep their order in its queue and
\* in the topic.
Before(q, r) == q.ref = r.ref /\ q.by = r.by => q.seq <= r.seq

Sorted(s) == \A m, n \in DOMAIN s : m < n => Before(s[m], s[n])

QueuesInOrder ==
    /\ Sorted(topic)
    /\ \A i \in Instance : /\ Sorted(outq[i])
                           /\ \A q \in ToSet(topic), r \in ToSet(outq[i]) : Before(q, r)

\* A record that came to the table is there, or in an archive, or a sweep took it without
\* archiving it, or another row replaced it.
Kept(r) == r \in table \union archive \union unarchived \union overwritten

\* Its key is kept even then.
KeyKept(r) == \E s \in table \union archive \union unarchived : Key(s) = Key(r)

\* What replaced a record has its key, which is kept from then on.
OverwrittenKept ==
    \A r \in overwritten : KeyKept(r) /\ \E q \in written \ {r} : Key(q) = Key(r)

\* A record came to the table, or has yet to, or is lost: NothingVanishes without the
\* reason for which the table gave a record up.
RecordsKept ==
    \A r \in written :
        /\ mode.direct => Kept(r) \/ Buffered(r) \/ <<"doris", r>> \in lost
        /\ mode.bus => Kept(r) \/ Queued(r) \/ <<"bus", r>> \in lost

\* In the table a record stands for those of its session that its instance wrote
\* before: they came to the table, or a sink has lost them.
Overtakes(q, r) == q.ref = r.ref /\ q.by = r.by /\ q.seq > r.seq

Settled(r) == Kept(r) \/ <<"doris", r>> \in lost \/ <<"bus", r>> \in lost

NobodyOvertakes == \A r \in written, q \in table : Overtakes(q, r) => Settled(r)

RecordsInv ==
    /\ DorisInv /\ BuffersInv /\ QueuesInv /\ ProcessInv /\ RequestsInOrder /\ QueuesInOrder
    /\ OverwrittenKept /\ RecordsKept /\ NobodyOvertakes

-----------------------------------------------------------------------------
(* Sequences. *)

\* A set of positions has a greatest.
LEMMA Greatest ==
    ASSUME NEW n \in Nat, NEW T \in SUBSET (1 .. n), T # {}
    PROVE  \E m \in T : \A k \in T : k <= m
<1> DEFINE D == {n - k : k \in T}
           Below == OpToRel(<, Nat)
<1>0. \A k \in T : k \in 1 .. n
  OBVIOUS
<1>1. D \subseteq Nat /\ D # {}
  <2>1. PICK k \in T : TRUE
    OBVIOUS
  <2>2. n - k \in D
    BY <2>1
  <2>3. ASSUME NEW j \in T PROVE n - j \in Nat
    BY <1>0
  <2> QED BY <2>2, <2>3
<1>2. IsWellFoundedOn(Below, Nat)
  BY NatLessThanWellFounded, Zenon
<1>3. \A a, b \in Nat : a < b => <<a, b>> \in Below
  BY Zenon DEF OpToRel
<1> HIDE DEF Below, D
<1>4. PICK d \in D : \A e \in D : <<e, d>> \notin Below
  BY <1>1, <1>2, WFMin
<1>5. PICK m \in T : d = n - m
  BY <1>4 DEF D
<1>6. ASSUME NEW k \in T PROVE k <= m
  <2>1. n - k \in D /\ k \in Nat /\ m \in Nat
    BY <1>0, <1>6 DEF D
  <2>2. n - k \in Nat /\ d \in Nat
    BY <1>1, <2>1
  <2>3. ~ (n - k < d)
    BY <1>3, <1>4, <2>1, <2>2
  <2> QED BY <1>5, <2>1, <2>3
<1> QED BY <1>6

\* The members of a sequence, of its head and tail, and of a longer one.
LEMMA Members ==
    ASSUME NEW S, NEW s \in Seq(S)
    PROVE  ToSet(s) \subseteq S /\ \A r \in ToSet(s) : \E n \in 1 .. Len(s) : r = s[n]
BY LenProperties DEF ToSet

LEMMA NoMembers == ToSet(<<>>) = {}
BY DEF ToSet

LEMMA OneMember ==
    ASSUME NEW e
    PROVE  ToSet(<<e>>) = {e} /\ <<e>> \in Seq({e})
BY DEF ToSet

LEMMA MembersAppended ==
    ASSUME NEW S, NEW s \in Seq(S), NEW e \in S
    PROVE  ToSet(Append(s, e)) = ToSet(s) \union {e} /\ Append(s, e) \in Seq(S)
<1>1. /\ Append(s, e) \in Seq(S) /\ Len(Append(s, e)) = Len(s) + 1
      /\ \A i \in 1 .. Len(s) : Append(s, e)[i] = s[i]
      /\ Append(s, e)[Len(s) + 1] = e
  BY AppendProperties
<1>2. /\ DOMAIN s = 1 .. Len(s) /\ DOMAIN Append(s, e) = 1 .. (Len(s) + 1) /\ Len(s) \in Nat
  BY <1>1, LenProperties
<1>3. ASSUME NEW r \in ToSet(s) PROVE r \in ToSet(Append(s, e))
  BY <1>1, <1>2 DEF ToSet
<1>4. e \in ToSet(Append(s, e))
  BY <1>1, <1>2 DEF ToSet
<1>5. ASSUME NEW r \in ToSet(Append(s, e)) PROVE r \in ToSet(s) \union {e}
  <2>1. PICK i \in 1 .. (Len(s) + 1) : r = Append(s, e)[i]
    BY <1>2 DEF ToSet
  <2> QED BY <1>1, <1>2, <2>1 DEF ToSet
<1> QED BY <1>1, <1>3, <1>4, <1>5

LEMMA MembersOfTail ==
    ASSUME NEW S, NEW s \in Seq(S), s # <<>>
    PROVE  /\ Head(s) \in ToSet(s) /\ Tail(s) \in Seq(S)
           /\ ToSet(s) = {Head(s)} \union ToSet(Tail(s))
<1>1. /\ Tail(s) \in Seq(S) /\ Len(Tail(s)) = Len(s) - 1 /\ Head(s) = s[1]
      /\ \A i \in 1 .. Len(Tail(s)) : Tail(s)[i] = s[i + 1]
      /\ Len(s) \in Nat \ {0}
  BY HeadTailProperties, EmptySeq
<1>2. DOMAIN s = 1 .. Len(s) /\ DOMAIN Tail(s) = 1 .. (Len(s) - 1)
  BY <1>1, LenProperties
<1>3. Head(s) \in ToSet(s)
  BY <1>1, <1>2 DEF ToSet
<1>4. ASSUME NEW r \in ToSet(Tail(s)) PROVE r \in ToSet(s)
  <2>1. PICK i \in 1 .. (Len(s) - 1) : r = Tail(s)[i]
    BY <1>2 DEF ToSet
  <2>2. i + 1 \in 1 .. Len(s) /\ r = s[i + 1]
    BY <1>1, <2>1
  <2> QED BY <1>2, <2>2 DEF ToSet
<1>5. ASSUME NEW r \in ToSet(s), r # Head(s) PROVE r \in ToSet(Tail(s))
  <2>1. PICK i \in 1 .. Len(s) : r = s[i]
    BY <1>2 DEF ToSet
  <2>2. i - 1 \in 1 .. (Len(s) - 1) /\ r = Tail(s)[i - 1]
    BY <1>1, <1>5, <2>1
  <2> QED BY <1>2, <2>2 DEF ToSet
<1> QED BY <1>1, <1>3, <1>4, <1>5

\* A queue stays sorted when its head goes and when its latest record comes.
LEMMA SortedAppended ==
    ASSUME NEW S, NEW s \in Seq(S), NEW e \in S, Sorted(s), \A q \in ToSet(s) : Before(q, e)
    PROVE  Sorted(Append(s, e))
<1>1. /\ Len(Append(s, e)) = Len(s) + 1 /\ DOMAIN Append(s, e) = 1 .. (Len(s) + 1)
      /\ \A i \in 1 .. Len(s) : Append(s, e)[i] = s[i]
      /\ Append(s, e)[Len(s) + 1] = e
      /\ DOMAIN s = 1 .. Len(s) /\ Len(s) \in Nat
  BY AppendProperties, LenProperties
<1>2. \A i \in 1 .. Len(s) : s[i] \in ToSet(s)
  BY <1>1 DEF ToSet
<1>3. ASSUME NEW m \in 1 .. (Len(s) + 1), NEW n \in 1 .. (Len(s) + 1), m < n
      PROVE  Before(Append(s, e)[m], Append(s, e)[n])
  <2>1. CASE n = Len(s) + 1
    <3>1. m \in 1 .. Len(s)
      BY <1>1, <1>3, <2>1
    <3> QED BY <1>1, <1>2, <2>1, <3>1
  <2>2. CASE n \in 1 .. Len(s)
    <3>1. m \in 1 .. Len(s)
      BY <1>1, <1>3, <2>2
    <3> QED BY <1>1, <1>3, <2>2, <3>1 DEF Sorted
  <2> QED BY <1>1, <2>1, <2>2
<1> QED BY <1>1, <1>3 DEF Sorted

LEMMA SortedTail ==
    ASSUME NEW s \in Seq(Row), s # <<>>, Sorted(s)
    PROVE  Sorted(Tail(s)) /\ \A r \in ToSet(s) : Before(Head(s), r)
<1>1. /\ Len(Tail(s)) = Len(s) - 1 /\ Head(s) = s[1]
      /\ \A i \in 1 .. Len(Tail(s)) : Tail(s)[i] = s[i + 1]
      /\ Len(s) \in Nat \ {0} /\ Tail(s) \in Seq(Row)
  BY HeadTailProperties, EmptySeq
<1>2. DOMAIN s = 1 .. Len(s) /\ DOMAIN Tail(s) = 1 .. (Len(s) - 1)
  BY <1>1, LenProperties
<1>3. ASSUME NEW m \in 1 .. (Len(s) - 1), NEW n \in 1 .. (Len(s) - 1), m < n
      PROVE  Before(Tail(s)[m], Tail(s)[n])
  <2>1. m + 1 \in 1 .. Len(s) /\ n + 1 \in 1 .. Len(s) /\ m + 1 < n + 1
    BY <1>1, <1>3
  <2> QED BY <1>1, <1>2, <2>1 DEF Sorted
<1>4. ASSUME NEW r \in ToSet(s) PROVE Before(Head(s), r)
  <2>1. PICK i \in 1 .. Len(s) : r = s[i]
    BY <1>2 DEF ToSet
  <2>2. CASE i = 1
    <3>1. s[1] \in Row
      BY <1>1, ElementOfSeq
    <3>2. s[1].seq \in Int
      BY <3>1, RecordsAssumption DEF Row
    <3> QED BY <1>1, <2>1, <2>2, <3>2 DEF Before
  <2>3. CASE i # 1
    BY <1>1, <1>2, <2>1, <2>3 DEF Sorted
  <2> QED BY <2>2, <2>3
<1> QED BY <1>2, <1>3, <1>4 DEF Sorted

-----------------------------------------------------------------------------
(* What a statement that reaches Doris does to the records. *)

\* The table has a row for the key of r.
Filed(r) == \E s \in table : Key(s) = Key(r)

\* The parts of a record.
LEMMA RowParts ==
    ASSUME NEW r \in Row
    PROVE  r.ref \in Ref /\ r.seq \in 0 .. MaxSeq /\ r.seq \in Int /\ r.by \in Instance
BY RecordsAssumption DEF Row

\* A row that goes for another leaves its key in the table.
Replaces(rows) ==
    /\ unarchived' = unarchived
    /\ overwritten \subseteq overwritten' /\ overwritten' \subseteq overwritten \union table \union rows
    /\ \A r \in overwritten' \ overwritten : r \notin table' /\ Filed(r)'

\* Every key that was in the table stays there, and those of the rows come in.
LEMMA UpsertFiles ==
    ASSUME NEW S, NEW rows \in Seq(S), Upsert(rows), OneRowPerKey, aged \subseteq table
    PROVE  /\ table' \subseteq table \union ToSet(rows)
           /\ aged' \subseteq aged /\ aged' \subseteq table'
           /\ OneRowPerKey'
           /\ \A r \in table \union ToSet(rows) : Filed(r)' /\ r \in table' \union overwritten'
           /\ Replaces(ToSet(rows))
<1> DEFINE replaced == {Key(rows[k]) : k \in DOMAIN rows}
           kept == {rows[k] : k \in {n \in DOMAIN rows :
                       \A m \in DOMAIN rows : m > n => Key(rows[m]) # Key(rows[n])}}
<1>1. /\ table' = {r \in table : Key(r) \notin replaced} \union kept
      /\ aged' = {r \in aged : Key(r) \notin replaced}
      /\ overwritten' = overwritten \union ((table \union ToSet(rows)) \ table')
      /\ unarchived' = unarchived
  BY DEF Upsert
<1>2. DOMAIN rows = 1 .. Len(rows) /\ Len(rows) \in Nat
  BY LenProperties
<1>3. kept \subseteq ToSet(rows) /\ \A r \in kept : Key(r) \in replaced
  BY DEF ToSet
<1>4. ASSUME NEW r \in kept, NEW s \in kept, Key(r) = Key(s) PROVE r = s
  <2>1. PICK m \in 1 .. Len(rows) : /\ r = rows[m]
                                    /\ \A k \in 1 .. Len(rows) : k > m => Key(rows[k]) # Key(r)
    BY <1>2
  <2>2. PICK n \in 1 .. Len(rows) : /\ s = rows[n]
                                    /\ \A k \in 1 .. Len(rows) : k > n => Key(rows[k]) # Key(s)
    BY <1>2
  <2>3. ~(m > n) /\ ~(n > m)
    BY <1>4, <2>1, <2>2
  <2> QED BY <1>2, <2>1, <2>2, <2>3
<1>5. ASSUME NEW k \in 1 .. Len(rows) PROVE \E s \in kept : Key(s) = Key(rows[k])
  <2> DEFINE T == {n \in 1 .. Len(rows) : Key(rows[n]) = Key(rows[k])}
  <2>1. T \in SUBSET (1 .. Len(rows)) /\ T # {}
    BY <1>5
  <2> HIDE DEF T
  <2>2. PICK m \in T : \A n \in T : n <= m
    BY <1>2, <2>1, Greatest
  <2>3. m \in DOMAIN rows /\ Key(rows[m]) = Key(rows[k])
    BY <1>2, <2>2 DEF T
  <2>4. ASSUME NEW n \in DOMAIN rows, n > m PROVE Key(rows[n]) # Key(rows[m])
    BY <1>2, <2>2, <2>3, <2>4 DEF T
  <2>5. rows[m] \in kept
    BY <2>3, <2>4
  <2> QED BY <2>3, <2>5
<1> HIDE DEF replaced, kept
<1>6. OneRowPerKey'
  BY <1>1, <1>3, <1>4 DEF OneRowPerKey, Key
<1>7. ASSUME NEW r \in table \union ToSet(rows) PROVE Filed(r)'
  <2>1. CASE Key(r) \in replaced
    <3>1. PICK k \in 1 .. Len(rows) : Key(r) = Key(rows[k])
      BY <1>2, <2>1 DEF replaced
    <3>2. PICK s \in kept : Key(s) = Key(rows[k])
      BY <1>5, <3>1
    <3> QED BY <1>1, <3>1, <3>2 DEF Filed, Key
  <2>2. CASE Key(r) \notin replaced
    <3>1. r \in table
      BY <2>2 DEF ToSet, replaced
    <3> QED BY <1>1, <2>2, <3>1 DEF Filed, Key
  <2> QED BY <2>1, <2>2
<1>8. Replaces(ToSet(rows))
  BY <1>1, <1>7 DEF Replaces
<1> QED BY <1>1, <1>3, <1>6, <1>7, <1>8

\* The rows reach the table or are lost, and nothing else happens to it.
Stores(rows) ==
    /\ table' \subseteq table \union rows
    /\ aged' \subseteq aged /\ aged' \subseteq table' /\ OneRowPerKey'
    /\ \A r \in table : Filed(r)' /\ r \in table' \union overwritten'
    /\ Replaces(rows)
    /\ lost \subseteq lost' /\ lost' \subseteq {"doris", "bus"} \X written'
    /\ \A r \in rows : r \in table' \union overwritten' \/ <<"doris", r>> \in lost'
    /\ rare' \in 0 .. MaxRare

\* The count of rare events stays within its bound.
LEMMA RareTyped ==
    ASSUME DorisInv, Rare \/ NoFault
    PROVE  rare' \in 0 .. MaxRare
BY RecordsAssumption DEF Rare, NoFault, DorisInv

\* A step that leaves the table alone stores what it reports as lost.
LEMMA LosesStores ==
    ASSUME DorisInv, UNCHANGED dorisVars, NEW rows, lost \subseteq lost',
           lost' \subseteq {"doris", "bus"} \X written',
           \A r \in rows : <<"doris", r>> \in lost',
           Rare \/ NoFault
    PROVE  Stores(rows)
<1>1. /\ table' = table /\ aged' = aged /\ rare' \in 0 .. MaxRare
      /\ overwritten' = overwritten /\ unarchived' = unarchived
  BY RareTyped DEF dorisVars
<1>2. Replaces(rows)
  BY <1>1 DEF Replaces
<1>3. OneRowPerKey' /\ \A r \in table : Filed(r)'
  BY <1>1 DEF Filed, DorisInv, OneRowPerKey, Key
<1> QED BY <1>1, <1>2, <1>3 DEF Stores, DorisInv

LEMMA UpsertStores ==
    ASSUME DorisInv, NEW S, NEW rows \in Seq(S), Upsert(rows), lost \subseteq lost',
           lost' \subseteq {"doris", "bus"} \X written',
           Rare \/ NoFault
    PROVE  Stores(ToSet(rows))
<1>1. OneRowPerKey /\ aged \subseteq table /\ rare' \in 0 .. MaxRare
  BY RareTyped DEF DorisInv
<1> QED BY <1>1, UpsertFiles DEF Stores

\* An INSERT stores its rows or loses them.
LEMMA ExecuteStores ==
    ASSUME DorisInv, written \subseteq written', NEW rows \in Seq(written'),
           NEW i \in Instance, Execute(i, rows)
    PROVE  Stores(ToSet(rows))
<1>1. Rare \/ NoFault
  BY DEF Execute, Fault
<1>2. lost \subseteq {"doris", "bus"} \X written' /\ ToSet(rows) \subseteq written'
  BY Members DEF DorisInv
<1>3. CASE Upsert(rows) /\ UNCHANGED lost
  BY <1>1, <1>2, <1>3, UpsertStores
<1>4. CASE Lose("doris", rows) /\ UNCHANGED dorisVars
  BY <1>1, <1>2, <1>4, LosesStores DEF Lose
<1> QED BY <1>3, <1>4 DEF Execute

\* A flush empties the buffer, and its rows are stored or lost.
LEMMA FlushStores ==
    ASSUME DorisInv, written \subseteq written', NEW rows \in Seq(written'),
           NEW i \in Instance, FlushLocked(i, rows)
    PROVE  Stores(ToSet(rows)) /\ pending' = [pending EXCEPT ![i] = <<>>]
<1>1. CASE rows = <<>>
  <2>1. UNCHANGED <<dorisVars, lost>> /\ NoFault
    BY <1>1 DEF FlushLocked
  <2>2. ToSet(rows) = {} /\ lost \subseteq {"doris", "bus"} \X written'
    BY <1>1, NoMembers DEF DorisInv
  <2> QED BY <2>1, <2>2, LosesStores DEF FlushLocked
<1>2. CASE rows # <<>>
  BY <1>2, ExecuteStores DEF FlushLocked
<1> QED BY <1>1, <1>2

-----------------------------------------------------------------------------
(* What a step leaves of the records that came to the table. *)

Keeps ==
    /\ archive \subseteq archive' /\ unarchived \subseteq unarchived'
    /\ overwritten \subseteq overwritten'
    /\ \A r \in table : /\ r \in table' \union overwritten' \union archive' \union unarchived'
                        /\ Filed(r)' \/ r \in archive' \union unarchived'
    /\ \A r \in overwritten' \ overwritten : r \notin table' /\ Filed(r)'

\* Every step of the model is of this kind: those that store rows, and those that leave
\* the table as it is.
LEMMA StoresKeeps ==
    ASSUME NEW rows, Stores(rows), archive' = archive
    PROVE  Keeps
BY DEF Stores, Replaces, Keeps

LEMMA TableKeeps ==
    ASSUME table' = table, overwritten' = overwritten, unarchived' = unarchived,
           archive \subseteq archive'
    PROVE  Keeps
<1>1. \A r \in table : Filed(r)'
  BY DEF Filed, Key
<1> QED BY <1>1 DEF Keeps

LEMMA StaysKept ==
    ASSUME Keeps, NEW r, Kept(r)
    PROVE  Kept(r)'
BY DEF Keeps, Kept

LEMMA StaysOverwritten ==
    ASSUME Keeps, OverwrittenKept, written \subseteq written', table' \subseteq written'
    PROVE  OverwrittenKept'
<1>1. ASSUME NEW r \in overwritten, KeyKept(r) PROVE KeyKept(r)'
  <2>1. PICK s \in table \union archive \union unarchived : Key(s) = Key(r)
    BY <1>1 DEF KeyKept
  <2>2. CASE s \in table /\ Filed(s)'
    <3>1. PICK t \in table' : Key(t) = Key(s)
      BY <2>2 DEF Filed, Key
    <3> QED BY <2>1, <3>1 DEF KeyKept, Key
  <2>3. CASE s \in archive' \union unarchived'
    BY <2>1, <2>3 DEF KeyKept, Key
  <2> QED BY <2>1, <2>2, <2>3 DEF Keeps
<1>2. ASSUME NEW r \in overwritten' \ overwritten
      PROVE  KeyKept(r)' /\ \E q \in written' \ {r} : Key(q) = Key(r)
  <2>1. PICK t \in table' : Key(t) = Key(r)
    BY <1>2 DEF Keeps, Filed, Key
  <2>2. t # r /\ t \in written'
    BY <1>2, <2>1 DEF Keeps
  <2> QED BY <2>1, <2>2 DEF KeyKept, Key
<1>3. ASSUME NEW r \in overwritten'
      PROVE  KeyKept(r)' /\ \E q \in written' \ {r} : Key(q) = Key(r)
  <2>1. CASE r \in overwritten
    BY <1>1, <2>1 DEF OverwrittenKept
  <2> QED BY <1>2, <1>3, <2>1
<1> QED BY <1>3 DEF OverwrittenKept, Key

-----------------------------------------------------------------------------
(* Buffers on their way to the table. *)

\* Instance i hands its buffer and what it writes now to the table, or keeps both.
HandsOver(i, new) ==
    /\ pending' \in [Instance -> Seq(written')]
    /\ \A j \in Instance \ {i} : pending'[j] = pending[j]
    /\ Len(pending'[i]) < mode.batch /\ (~mode.direct => pending'[i] = <<>>)
    /\ \/ /\ Stores({}) /\ ToSet(pending'[i]) \subseteq ToSet(pending[i]) \union new
          /\ mode.direct => ToSet(pending[i]) \union new \subseteq ToSet(pending'[i])
       \/ /\ mode.direct /\ Stores(ToSet(pending[i]) \union new) /\ ToSet(pending'[i]) = {}

\* Handing over keeps the types of the table and of the buffers.
LEMMA HandOverTyped ==
    ASSUME DorisInv, BuffersInv, NEW i \in Instance, NEW new \in SUBSET Row,
           written' = written \union new, HandsOver(i, new), \A r \in new : r.by = i,
           UNCHANGED <<mode, archive>>
    PROVE  DorisInv' /\ BuffersInv'
<1>1. ToSet(pending[i]) \subseteq written
  BY Members DEF BuffersInv
<1>2. PICK rows \in SUBSET written' : Stores(rows)
  <2>1. {} \in SUBSET written' /\ ToSet(pending[i]) \union new \in SUBSET written'
    BY <1>1
  <2> QED BY <2>1 DEF HandsOver
<1>3. DorisInv'
  BY <1>2 DEF DorisInv, Stores, Replaces
<1>4. \A r \in ToSet(pending'[i]) : r.by = i
  BY DEF HandsOver, BuffersInv
<1>5. BuffersInv'
  BY <1>4 DEF HandsOver, BuffersInv
<1> QED BY <1>3, <1>5

\* A record that is handed over is in the table or lost, and any other stays where it was.
LEMMA HandOverKeeps ==
    ASSUME DorisInv, BuffersInv, RecordsKept,
           NEW i \in Instance, NEW new \in SUBSET Row,
           written' = written \union new, HandsOver(i, new), \A r \in new : r.by = i,
           UNCHANGED <<mode, archive>>
    PROVE  /\ Keeps
           /\ \A r \in written' : mode.direct /\ (r \in new \/ Buffered(r)) =>
                 Kept(r)' \/ Buffered(r)' \/ <<"doris", r>> \in lost'
           /\ \A r \in written', q \in table' \ table :
                 mode.direct /\ Overtakes(q, r) => Settled(r)'
           /\ ~mode.direct => table' \subseteq table
<1>1. Keeps /\ lost \subseteq lost'
  <2>1. PICK rows : Stores(rows)
    BY DEF HandsOver
  <2> QED BY <2>1, StoresKeeps DEF Stores
<1>2. \A r : Kept(r) => Kept(r)'
  BY <1>1, StaysKept
<1>3. ASSUME NEW r, r \in new \/ Buffered(r), mode.direct
      PROVE  Kept(r)' \/ Buffered(r)' \/ <<"doris", r>> \in lost'
  <2>1. CASE \E j \in Instance \ {i} : r \in ToSet(pending[j])
    BY <2>1 DEF HandsOver, Buffered
  <2>2. CASE r \in ToSet(pending[i]) \union new
    <3>1. CASE ToSet(pending[i]) \union new \subseteq ToSet(pending'[i])
      BY <2>2, <3>1 DEF Buffered
    <3>2. CASE Stores(ToSet(pending[i]) \union new)
      <4>1. r \in table' \union overwritten' \/ <<"doris", r>> \in lost'
        BY <2>2, <3>2 DEF Stores
      <4> QED BY <4>1 DEF Kept
    <3> QED BY <1>3, <3>1, <3>2 DEF HandsOver
  <2> QED BY <1>3, <2>1, <2>2 DEF Buffered
<1>4. ASSUME NEW r \in written', NEW q \in table' \ table, mode.direct, Overtakes(q, r)
      PROVE  Settled(r)'
  <2>1. Stores(ToSet(pending[i]) \union new) /\ q \in ToSet(pending[i]) \union new
    BY <1>4 DEF HandsOver, Stores
  <2>2. q.by = i /\ r.by = i
    BY <1>4, <2>1 DEF BuffersInv, Overtakes
  <2>3. CASE r \in ToSet(pending[i]) \union new
    <3>1. r \in table' \union overwritten' \/ <<"doris", r>> \in lost'
      BY <2>1, <2>3 DEF Stores
    <3> QED BY <3>1 DEF Settled, Kept
  <2>4. CASE r \notin ToSet(pending[i]) \union new
    <3>1. r \in written /\ ~Buffered(r)
      BY <2>2, <2>4 DEF Buffered, BuffersInv
    <3>2. Kept(r) \/ <<"doris", r>> \in lost
      BY <1>4, <3>1 DEF RecordsKept
    <3> QED BY <1>1, <1>2, <3>2 DEF Settled
  <2> QED BY <2>3, <2>4
<1>5. ~mode.direct => table' \subseteq table
  BY DEF HandsOver, Stores
<1> QED BY <1>1, <1>3, <1>4, <1>5

\* A step in which no record leaves a sink unseen, and none overtakes.
LEMMA NoneVanishes ==
    ASSUME RecordsKept, NobodyOvertakes, mode' = mode, lost \subseteq lost',
           NEW new, written' = written \union new,
           Keeps,
           \A r \in written' : mode.direct /\ (r \in new \/ Buffered(r)) =>
               Kept(r)' \/ Buffered(r)' \/ <<"doris", r>> \in lost',
           \A r \in written' : mode.bus /\ (r \in new \/ Queued(r)) =>
               Kept(r)' \/ Queued(r)' \/ <<"bus", r>> \in lost',
           \A r \in new, q \in table : ~Overtakes(q, r),
           \A r \in written', q \in table' \ table : Overtakes(q, r) => Settled(r)'
    PROVE  RecordsKept' /\ NobodyOvertakes'
<1>0. \A r : Kept(r) => Kept(r)'
  BY StaysKept
<1>1. ASSUME NEW r \in written'
      PROVE  /\ mode.direct => Kept(r)' \/ Buffered(r)' \/ <<"doris", r>> \in lost'
             /\ mode.bus => Kept(r)' \/ Queued(r)' \/ <<"bus", r>> \in lost'
  <2>1. CASE r \in new
    BY <2>1
  <2>2. CASE r \in written
    BY <1>0, <2>2 DEF RecordsKept
  <2> QED BY <2>1, <2>2
<1>2. ASSUME NEW r \in written', NEW q \in table', Overtakes(q, r)
      PROVE  Settled(r)'
  <2>1. CASE q \notin table
    BY <1>2, <2>1
  <2>2. CASE q \in table
    <3>1. r \in written /\ Settled(r)
      BY <1>2, <2>2 DEF NobodyOvertakes
    <3> QED BY <1>0, <3>1 DEF Settled
  <2> QED BY <2>1, <2>2
<1>3. RecordsKept'
  BY <1>1 DEF RecordsKept
<1>4. NobodyOvertakes'
  BY <1>2 DEF NobodyOvertakes, Overtakes
<1> QED BY <1>3, <1>4

\* What is buffered and queued after a step that leaves buffers and queues alone.
LEMMA BuffersKept ==
    ASSUME pending' = pending, NEW r
    PROVE  Buffered(r)' <=> Buffered(r)
BY DEF Buffered

-----------------------------------------------------------------------------
(* The handlers. *)

\* A handler begins or ends a request.
LEMMA RequestStep ==
    ASSUME RequestsInOrder, DorisInv, NEW c \in Ref,
           \/ \E i \in Instance, groups \in Usages : Begin(c, i, groups)
           \/ \E i \in Instance : BeginRelease(c, i)
           \/ Detect(c)
    PROVE  /\ RequestsInOrder'
           /\ UNCHANGED <<mode, dorisVars, archive, topic, processVars, pending, outq, sweep,
                          historyVars, rare>>
<1>1. UNCHANGED <<mode, dorisVars, archive, topic, processVars, pending, outq, sweep,
                  historyVars, rare>>
  BY DEF Begin, BeginRelease, Detect
<1>2. /\ written' = written /\ next[c] \in Int /\ MaxSeq \in Nat
      /\ \A w \in written : w.seq \in Int /\ w.ref \in Ref
      /\ request \in [Ref -> [at : Instance \union {None}, rows : Seq(Row)]]
      /\ next \in [Ref -> 0 .. MaxSeq + 1]
  <2>1. \A w \in written : w.seq \in Int /\ w.ref \in Ref
    BY RowParts DEF DorisInv
  <2> QED BY <1>1, <2>1, RecordsAssumption DEF historyVars, RequestsInOrder
<1>3. ASSUME NEW i \in Instance \union {None}, NEW rows \in Seq(Row), NEW m \in 0 .. MaxSeq + 1,
             request' = [request EXCEPT ![c] = [at |-> i, rows |-> rows]],
             next' = [next EXCEPT ![c] = m], m >= next[c],
             \A r \in ToSet(rows) : /\ i \in Instance /\ r.ref = c /\ r.by = i
                                    /\ r.seq = next[c] /\ r.seq < m
      PROVE  RequestsInOrder'
  <2>1. /\ request' \in [Ref -> [at : Instance \union {None}, rows : Seq(Row)]]
        /\ next' \in [Ref -> 0 .. MaxSeq + 1]
        /\ request'[c].at = i /\ request'[c].rows = rows /\ next'[c] = m
        /\ \A d \in Ref \ {c} : request'[d] = request[d] /\ next'[d] = next[d]
    BY <1>2, <1>3
  <2>2. \A w \in written : w.seq < next'[w.ref]
    <3> SUFFICES ASSUME NEW w \in written PROVE w.seq < next'[w.ref]
      OBVIOUS
    <3>1. w.seq < next[w.ref] /\ w.ref \in Ref /\ w.seq \in Int
      BY <1>2 DEF RequestsInOrder
    <3>2. CASE w.ref = c
      BY <1>2, <1>3, <2>1, <3>1, <3>2
    <3>3. CASE w.ref # c
      BY <2>1, <3>1, <3>3
    <3> QED BY <3>2, <3>3
  <2>3. ASSUME NEW d \in Ref, NEW r \in ToSet(request'[d].rows)
        PROVE  /\ request'[d].at \in Instance
               /\ r.ref = d /\ r.by = request'[d].at /\ r.seq < next'[d]
               /\ \A w \in written : w.ref = d => w.seq <= r.seq
               /\ \A q \in ToSet(request'[d].rows) : q.seq = r.seq
    <3>1. CASE d = c
      <4>1. /\ i \in Instance /\ r.ref = c /\ r.by = i /\ r.seq = next[c] /\ r.seq < m
        BY <1>3, <2>1, <2>3, <3>1
      <4>2. \A w \in written : w.ref = c => w.seq < next[c] /\ w.seq \in Int
        BY <1>2 DEF RequestsInOrder
      <4>3. \A w \in written : w.ref = c => w.seq <= r.seq
        BY <1>2, <4>1, <4>2
      <4>4. \A q \in ToSet(rows) : q.seq = r.seq
        BY <1>3, <4>1
      <4> QED BY <2>1, <3>1, <4>1, <4>3, <4>4
    <3>2. CASE d # c
      BY <2>1, <2>3, <3>2 DEF RequestsInOrder
    <3> QED BY <3>1, <3>2
  <2> QED BY <1>2, <2>1, <2>2, <2>3 DEF RequestsInOrder
<1>4. ASSUME NEW i \in Instance, NEW groups \in Usages, Begin(c, i, groups)
      PROVE  RequestsInOrder'
  <2> DEFINE rows == [k \in DOMAIN groups |->
                         [ref |-> c, seq |-> next[c], group |-> groups[k], by |-> i]]
  <2>1. DOMAIN groups = 1 .. Len(groups) /\ Len(groups) \in Nat
        /\ \A k \in DOMAIN groups : groups[k] \in Group
    BY RecordsAssumption, LenProperties
  <2>2. next[c] \in 0 .. MaxSeq /\ next[c] < MaxSeq
    BY <1>2, <1>4 DEF Begin
  <2>3. \A k \in DOMAIN groups :
            [ref |-> c, seq |-> next[c], group |-> groups[k], by |-> i] \in Row
    BY <2>1, <2>2 DEF Row
  <2>4. rows \in Seq(Row)
    <3>1. rows \in [1 .. Len(groups) -> Row]
      BY <2>1, <2>3
    <3> HIDE DEF rows
    <3> QED BY <2>1, <3>1
  <2>5. \A r \in ToSet(rows) : r.ref = c /\ r.by = i /\ r.seq = next[c]
    BY DEF ToSet
  <2>6. /\ request' = [request EXCEPT ![c] = [at |-> i, rows |-> rows]]
        /\ next' = [next EXCEPT ![c] = next[c] + 1]
    BY <1>4 DEF Begin
  <2> HIDE DEF rows
  <2>7. next[c] + 1 \in 0 .. MaxSeq + 1 /\ next[c] + 1 >= next[c] /\ next[c] < next[c] + 1
    BY <1>2, <2>2
  <2> QED BY <1>3, <2>4, <2>5, <2>6, <2>7
<1>5. ASSUME NEW i \in Instance, BeginRelease(c, i)
      PROVE  RequestsInOrder'
  <2> DEFINE row == [ref |-> c, seq |-> next[c], group |-> None, by |-> i]
  <2>1. next[c] \in 1 .. MaxSeq
    BY <1>5 DEF BeginRelease
  <2>2. row \in Row /\ row.ref = c /\ row.by = i /\ row.seq = next[c]
    BY <2>1, RecordsAssumption DEF Row
  <2>3. /\ request' = [request EXCEPT ![c] = [at |-> i, rows |-> <<row>>]]
        /\ next' = [next EXCEPT ![c] = MaxSeq + 1]
    BY <1>5 DEF BeginRelease
  <2> HIDE DEF row
  <2>4. <<row>> \in Seq(Row) /\ \A r \in ToSet(<<row>>) : r = row
    BY <2>2, OneMember
  <2>5. MaxSeq + 1 \in 0 .. MaxSeq + 1 /\ MaxSeq + 1 >= next[c] /\ next[c] < MaxSeq + 1
    BY <1>2, <2>1
  <2> QED BY <1>3, <2>2, <2>3, <2>4, <2>5
<1>6. ASSUME Detect(c) PROVE RequestsInOrder'
  <2>1. /\ request' = [request EXCEPT ![c] = [at |-> None, rows |-> <<>>]]
        /\ next' = [next EXCEPT ![c] = next[c]]
    BY <1>2, <1>6 DEF Detect, NoRequest
  <2>2. <<>> \in Seq(Row) /\ ToSet(<<>>) = {}
    BY NoMembers
  <2>3. next[c] \in 0 .. MaxSeq + 1 /\ next[c] >= next[c]
    BY <1>2
  <2> QED BY <1>3, <2>1, <2>2, <2>3
<1>7. RequestsInOrder'
  BY <1>4, <1>5, <1>6
<1> QED BY <1>1, <1>7

\* A handler writes the next record of its request.
LEMMA WriteRequest ==
    ASSUME RequestsInOrder, DorisInv, NEW c \in Ref, Write(c)
    PROVE  LET i == request[c].at
               row == Head(request[c].rows)
           IN  /\ i \in Instance /\ row \in Row /\ row.by = i /\ written' = written \union {row}
               /\ \A w \in written : w.ref = row.ref => w.seq <= row.seq
               /\ RequestsInOrder'
<1> DEFINE i == request[c].at
           row == Head(request[c].rows)
           rest == Tail(request[c].rows)
<1>1. /\ request[c].rows \in Seq(Row) /\ request[c].rows # <<>> /\ i \in Instance \union {None}
      /\ request' = [request EXCEPT ![c] = [at |-> i, rows |-> rest]]
      /\ next' = next /\ written' = written \union {row}
      /\ request \in [Ref -> [at : Instance \union {None}, rows : Seq(Row)]]
      /\ next \in [Ref -> 0 .. MaxSeq + 1]
  <2>1. request \in [Ref -> [at : Instance \union {None}, rows : Seq(Row)]]
        /\ next \in [Ref -> 0 .. MaxSeq + 1]
    BY DEF RequestsInOrder
  <2>2. request[c] = [at |-> i, rows |-> request[c].rows] /\ request[c].rows \in Seq(Row)
        /\ i \in Instance \union {None}
    BY <2>1
  <2>3. request' = [request EXCEPT ![c] = [request[c] EXCEPT !.rows = rest]]
        /\ next' = next /\ written' = written \union {row} /\ request[c].rows # <<>>
    BY <2>1 DEF Write
  <2>4. [request[c] EXCEPT !.rows = rest] = [at |-> i, rows |-> rest]
    <3> DEFINE q == request[c]
    <3>1. q \in [at : Instance \union {None}, rows : Seq(Row)]
      BY <2>1
    <3> HIDE DEF q
    <3>2. \A x : [q EXCEPT !.rows = x] = [at |-> q.at, rows |-> x]
      BY ONLY <3>1
    <3> QED BY <3>2 DEF q
  <2> QED BY <2>1, <2>2, <2>3, <2>4
<1>2. /\ row \in Row /\ row \in ToSet(request[c].rows) /\ rest \in Seq(Row)
      /\ ToSet(request[c].rows) = {row} \union ToSet(rest)
  BY <1>1, MembersOfTail, Members
<1>3. /\ i \in Instance /\ row.by = i /\ row.ref = c /\ row.seq < next[c]
      /\ \A w \in written : w.ref = row.ref => w.seq <= row.seq
  BY <1>2 DEF RequestsInOrder
<1>4. ASSUME NEW r \in ToSet(rest)
      PROVE  /\ r.ref = c /\ r.by = i /\ r.seq < next[c]
             /\ \A w \in written \union {row} : w.ref = c => w.seq <= r.seq
             /\ \A q \in ToSet(rest) : q.seq = r.seq
  <2>1. /\ r.ref = c /\ r.by = i /\ r.seq < next[c]
        /\ \A w \in written : w.ref = c => w.seq <= r.seq
        /\ \A q \in ToSet(rest) : q.seq = r.seq
        /\ row.seq = r.seq
    BY <1>2 DEF RequestsInOrder
  <2>2. row.seq <= r.seq
    BY <1>2, <2>1, RowParts
  <2> QED BY <2>1, <2>2
<1> HIDE DEF i, row, rest
<1>5. /\ request' \in [Ref -> [at : Instance \union {None}, rows : Seq(Row)]]
      /\ request'[c].at = i /\ request'[c].rows = rest
      /\ \A d \in Ref \ {c} : request'[d] = request[d]
  BY <1>1, <1>2
<1>6. ASSUME NEW d \in Ref, NEW r \in ToSet(request'[d].rows)
      PROVE  /\ request'[d].at \in Instance
             /\ r.ref = d /\ r.by = request'[d].at /\ r.seq < next[d]
             /\ \A w \in written \union {row} : w.ref = d => w.seq <= r.seq
             /\ \A q \in ToSet(request'[d].rows) : q.seq = r.seq
  <2>1. CASE d = c
    BY <1>3, <1>4, <1>5, <1>6, <2>1
  <2>2. CASE d # c
    <3>1. row.ref # d /\ r \in ToSet(request[d].rows) /\ request'[d] = request[d]
      BY <1>3, <1>5, <1>6, <2>2
    <3>2. /\ request[d].at \in Instance
          /\ r.ref = d /\ r.by = request[d].at /\ r.seq < next[d]
          /\ \A w \in written : w.ref = d => w.seq <= r.seq
          /\ \A q \in ToSet(request[d].rows) : q.seq = r.seq
      BY <3>1 DEF RequestsInOrder
    <3> QED BY <3>1, <3>2
  <2> QED BY <2>1, <2>2
<1>7. \A w \in written \union {row} : w.seq < next[w.ref]
  BY <1>3 DEF RequestsInOrder
<1>8. RequestsInOrder'
  <2>1. next' = next /\ written' = written \union {row}
        /\ next \in [Ref -> 0 .. MaxSeq + 1]
    BY <1>1
  <2>2. \A w \in written' : w.seq < next'[w.ref]
    BY <1>7, <2>1
  <2>3. ASSUME NEW d \in Ref, NEW r \in ToSet(request'[d].rows)
        PROVE  /\ request'[d].at \in Instance
               /\ r.ref = d /\ r.by = request'[d].at /\ r.seq < next'[d]
               /\ \A w \in written' : w.ref = d => w.seq <= r.seq
               /\ \A q \in ToSet(request'[d].rows) : q.seq = r.seq
    BY <1>6, <2>1
  <2> QED BY <1>5, <2>1, <2>2, <2>3 DEF RequestsInOrder
<1> QED BY <1>1, <1>2, <1>3, <1>8 DEF i, row

\* The buffer and the row that is written: together in the table, or both in the buffer.
LEMMA WriteHandsOver ==
    ASSUME RequestsInOrder, DorisInv, BuffersInv, NEW c \in Ref, Write(c)
    PROVE  HandsOver(request[c].at, {Head(request[c].rows)})
<1> DEFINE i == request[c].at
           row == Head(request[c].rows)
           rows == Append(pending[i], row)
<1>1. i \in Instance /\ row \in Row /\ written' = written \union {row} /\ mode' = mode
  BY WriteRequest DEF Write
<1>2. pending[i] \in Seq(written') /\ pending[i] \in Seq(written) /\ Len(pending[i]) \in Nat
  <2>1. pending[i] \in Seq(written)
    BY <1>1 DEF BuffersInv
  <2> QED BY <1>1, <2>1, SeqMonotonic, LenProperties
<1>3. rows \in Seq(written') /\ ToSet(rows) = ToSet(pending[i]) \union {row}
      /\ Len(rows) = Len(pending[i]) + 1 /\ row \in written'
  BY <1>1, <1>2, MembersAppended, AppendProperties
<1>4. /\ pending \in [Instance -> Seq(written')] /\ Len(pending[i]) < mode.batch
      /\ ~mode.direct => pending[i] = <<>>
      /\ mode.batch \in Nat \ {0} /\ <<>> \in Seq(written') /\ Len(<<>>) = 0
  <2>1. ASSUME NEW j \in Instance PROVE pending[j] \in Seq(written')
    <3>1. pending[j] \in Seq(written)
      BY DEF BuffersInv
    <3> QED BY <1>1, <3>1, SeqMonotonic
  <2>2. pending \in [Instance -> Seq(written')]
    BY <2>1 DEF BuffersInv
  <2>3. mode.batch \in Nat \ {0}
    BY RecordsAssumption DEF DorisInv
  <2> QED BY <1>1, <2>2, <2>3, EmptySeq DEF BuffersInv
<1>5. \/ ~mode.direct /\ NoFault /\ UNCHANGED <<dorisVars, pending, lost>>
      \/ mode.direct /\ mode.batch = 1 /\ Execute(i, <<row>>) /\ pending' = pending
      \/ mode.direct /\ FlushLocked(i, rows)
      \/ /\ mode.direct /\ ~Full(rows) /\ pending' = [pending EXCEPT ![i] = rows]
         /\ NoFault /\ UNCHANGED <<dorisVars, lost>>
  BY DEF Write
<1>6. NoFault /\ UNCHANGED <<dorisVars, lost>> => Stores({})
  BY <1>1, LosesStores DEF DorisInv
<1> SUFFICES HandsOver(i, {row})
  OBVIOUS
<1> HIDE DEF i, row, rows
<1>7. CASE ~mode.direct /\ NoFault /\ UNCHANGED <<dorisVars, pending, lost>>
  BY <1>4, <1>6, <1>7 DEF HandsOver
<1>8. CASE mode.direct /\ mode.batch = 1 /\ Execute(i, <<row>>) /\ pending' = pending
  <2>1. ToSet(<<row>>) = {row} /\ <<row>> \in Seq(written')
    <3>1. ToSet(<<row>>) = {row} /\ <<row>> \in Seq({row})
      BY OneMember
    <3> QED BY <1>3, <3>1, SeqMonotonic
  <2>2. Stores({row})
    BY <1>1, <1>8, <2>1, ExecuteStores
  <2>3. pending[i] = <<>> /\ ToSet(pending[i]) = {}
    BY <1>2, <1>4, <1>8, EmptySeq, NoMembers
  <2> QED BY <1>4, <1>8, <2>2, <2>3 DEF HandsOver
<1>9. CASE mode.direct /\ FlushLocked(i, rows)
  <2>1. Stores(ToSet(rows)) /\ pending' = [pending EXCEPT ![i] = <<>>]
    BY <1>1, <1>3, <1>9, FlushStores
  <2>2. /\ pending' \in [Instance -> Seq(written')] /\ pending'[i] = <<>>
        /\ \A j \in Instance \ {i} : pending'[j] = pending[j]
    BY <1>1, <1>4, <2>1
  <2> QED BY <1>3, <1>4, <1>9, <2>1, <2>2, NoMembers DEF HandsOver
<1>10. CASE /\ mode.direct /\ ~Full(rows) /\ pending' = [pending EXCEPT ![i] = rows]
            /\ NoFault /\ UNCHANGED <<dorisVars, lost>>
  <2>1. /\ pending' \in [Instance -> Seq(written')] /\ pending'[i] = rows
        /\ \A j \in Instance \ {i} : pending'[j] = pending[j]
    BY <1>1, <1>3, <1>4, <1>10
  <2>2. Len(rows) < mode.batch
    BY <1>2, <1>3, <1>4, <1>10 DEF Full
  <2> QED BY <1>3, <1>6, <1>10, <2>1, <2>2 DEF HandsOver
<1> QED BY <1>5, <1>7, <1>8, <1>9, <1>10

\* A sequence of written records is one when more have been written.
LEMMA StillWritten ==
    ASSUME written \subseteq written', NEW f \in [Instance -> Seq(written)]
    PROVE  f \in [Instance -> Seq(written')]
<1>1. ASSUME NEW i \in Instance PROVE f[i] \in Seq(written')
  BY SeqMonotonic
<1> QED BY <1>1

\* The event of a record joins the queue of its instance behind all of its session.
LEMMA WriteQueues ==
    ASSUME RequestsInOrder, DorisInv, QueuesInv, QueuesInOrder, NEW c \in Ref, Write(c)
    PROVE  /\ QueuesInv' /\ QueuesInOrder'
           /\ \A r : mode.bus /\ (r = Head(request[c].rows) \/ Queued(r)) => Queued(r)'
<1> DEFINE i == request[c].at
           row == Head(request[c].rows)
<1>1. /\ i \in Instance /\ row \in Row /\ row.by = i /\ written' = written \union {row}
      /\ \A w \in written : w.ref = row.ref => w.seq <= row.seq
  BY WriteRequest
<1>2. /\ topic' = topic /\ mode' = mode
      /\ outq' = IF mode.bus THEN [outq EXCEPT ![i] = Append(@, row)] ELSE outq
  BY DEF Write
<1> HIDE DEF i, row
<1>3. /\ topic \in Seq(written') /\ outq \in [Instance -> Seq(written')]
      /\ outq \in [Instance -> Seq(written)] /\ row \in written'
      /\ ToSet(topic) \subseteq written
  BY <1>1, StillWritten, SeqMonotonic, Members DEF QueuesInv
<1>4. outq[i] \in Seq(written') /\ outq[i] \in Seq(written) /\ ToSet(outq[i]) \subseteq written
  BY <1>1, <1>3, Members
<1>5. CASE ~mode.bus
  <2>1. outq' = outq
    BY <1>2, <1>5
  <2>2. QueuesInv'
    BY <1>2, <1>3, <2>1 DEF QueuesInv
  <2>3. QueuesInOrder'
    BY <1>2, <2>1 DEF QueuesInOrder, Sorted, Before
  <2> QED BY <1>5, <2>2, <2>3
<1>6. CASE mode.bus
  <2> DEFINE longer == Append(outq[i], row)
  <2>1. longer \in Seq(written') /\ ToSet(longer) = ToSet(outq[i]) \union {row}
    BY <1>3, <1>4, MembersAppended
  <2>2. \A q \in written : Before(q, row)
    BY <1>1 DEF Before
  <2>3. Sorted(outq[i])
    BY <1>1 DEF QueuesInOrder
  <2>4. Sorted(longer)
    BY <1>3, <1>4, <2>2, <2>3, SortedAppended
  <2> HIDE DEF longer
  <2>5. /\ outq' \in [Instance -> Seq(written')] /\ outq'[i] = longer
        /\ \A j \in Instance \ {i} : outq'[j] = outq[j]
    <3>1. outq' = [outq EXCEPT ![i] = longer]
      BY <1>2, <1>6 DEF longer
    <3> QED BY <1>1, <1>3, <2>1, <3>1
  <2>6. QueuesInv'
    <3>1. ASSUME NEW j \in Instance, NEW r \in ToSet(outq'[j]) PROVE r.by = j
      <4>1. CASE j = i
        BY <1>1, <2>1, <2>5, <3>1, <4>1 DEF QueuesInv
      <4>2. CASE j # i
        BY <2>5, <3>1, <4>2 DEF QueuesInv
      <4> QED BY <4>1, <4>2
    <3> QED BY <1>2, <1>3, <1>6, <2>5, <3>1 DEF QueuesInv
  <2>7. QueuesInOrder'
    <3>1. Sorted(topic)'
      BY <1>2 DEF QueuesInOrder, Sorted, Before
    <3>2. ASSUME NEW j \in Instance
          PROVE  /\ Sorted(outq'[j])
                 /\ \A q \in ToSet(topic), r \in ToSet(outq'[j]) : Before(q, r)
      <4>1. CASE j = i
        BY <1>3, <2>1, <2>2, <2>4, <2>5, <4>1 DEF QueuesInOrder
      <4>2. CASE j # i
        BY <2>5, <4>2 DEF QueuesInOrder
      <4> QED BY <4>1, <4>2
    <3> QED BY <1>2, <3>1, <3>2 DEF QueuesInOrder, Sorted, Before
  <2>8. ASSUME NEW r, r = row \/ Queued(r) PROVE Queued(r)'
    <3>1. CASE r = row
      BY <1>1, <2>1, <2>5, <3>1 DEF Queued
    <3>2. CASE r \in ToSet(topic)
      BY <1>2, <3>2 DEF Queued
    <3>3. CASE \E j \in Instance : r \in ToSet(outq[j])
      <4>1. PICK j \in Instance : r \in ToSet(outq[j])
        BY <3>3
      <4>2. r \in ToSet(outq'[j])
        BY <2>1, <2>5, <4>1
      <4> QED BY <4>2 DEF Queued
    <3> QED BY <2>8, <3>1, <3>2, <3>3 DEF Queued
  <2> QED BY <2>6, <2>7, <2>8 DEF row
<1> QED BY <1>5, <1>6

-----------------------------------------------------------------------------
(* Every step keeps the records in order. *)

\* A step in which an instance hands over its buffer and what it writes.
LEMMA HandOverStep ==
    ASSUME RecordsInv, NEW i \in Instance, NEW new \in SUBSET Row, HandsOver(i, new),
           written' = written \union new, \A r \in new : r.by = i,
           \A r \in new : \A w \in written : w.ref = r.ref => w.seq <= r.seq,
           UNCHANGED <<mode, archive>>,
           ProcessInv', RequestsInOrder', QueuesInv', QueuesInOrder',
           \A r \in written' : mode.bus /\ (r \in new \/ Queued(r)) =>
               Queued(r)' \/ <<"bus", r>> \in lost'
    PROVE  RecordsInv'
<1>1. DorisInv /\ BuffersInv /\ OverwrittenKept /\ RecordsKept /\ NobodyOvertakes
  BY DEF RecordsInv
<1>2. DorisInv' /\ BuffersInv'
  BY <1>1, HandOverTyped
<1>3. lost \subseteq lost'
  BY DEF HandsOver, Stores
<1>4. /\ Keeps
      /\ \A r \in written' : mode.direct /\ (r \in new \/ Buffered(r)) =>
            Kept(r)' \/ Buffered(r)' \/ <<"doris", r>> \in lost'
      /\ \A r \in written', q \in table' \ table :
            mode.direct /\ Overtakes(q, r) => Settled(r)'
      /\ ~mode.direct => table' \subseteq table
  BY <1>1, HandOverKeeps
<1>5. \A r \in written', q \in table' \ table : Overtakes(q, r) => Settled(r)'
  BY <1>4
<1>6. ASSUME NEW r \in new, NEW q \in table PROVE ~Overtakes(q, r)
  <2>1. q \in written /\ q.seq \in Int /\ r.seq \in Int
    BY <1>1, RowParts DEF DorisInv
  <2> QED BY <2>1 DEF Overtakes
<1>7. \A r \in written' : mode.bus /\ (r \in new \/ Queued(r)) =>
          Kept(r)' \/ Queued(r)' \/ <<"bus", r>> \in lost'
  OBVIOUS
<1>8. RecordsKept' /\ NobodyOvertakes'
  BY <1>1, <1>3, <1>4, <1>5, <1>6, <1>7, NoneVanishes
<1>9. OverwrittenKept'
  <2>1. written \subseteq written' /\ table' \subseteq written'
    BY <1>2 DEF DorisInv
  <2> QED BY <1>1, <1>4, <2>1, StaysOverwritten
<1> QED BY <1>2, <1>8, <1>9 DEF RecordsInv

\* A record that is written.
LEMMA WriteKeeps ==
    ASSUME RecordsInv, NEW c \in Ref, Write(c)
    PROVE  RecordsInv'
<1> DEFINE i == request[c].at
           row == Head(request[c].rows)
           new == {row}
<1>0. DorisInv /\ BuffersInv /\ QueuesInv /\ ProcessInv /\ RequestsInOrder /\ QueuesInOrder
  BY DEF RecordsInv
<1>1. /\ i \in Instance /\ row \in Row /\ row.by = i /\ written' = written \union {row}
      /\ \A w \in written : w.ref = row.ref => w.seq <= row.seq
      /\ RequestsInOrder'
  BY <1>0, WriteRequest
<1>2. HandsOver(i, {row})
  BY <1>0, WriteHandsOver
<1>3. /\ QueuesInv' /\ QueuesInOrder'
      /\ \A r : mode.bus /\ (r = row \/ Queued(r)) => Queued(r)'
  BY <1>0, WriteQueues
<1>4. UNCHANGED <<mode, archive>> /\ phase' = phase /\ linked' = linked /\ sweep' = sweep
  BY DEF Write, processVars
<1> HIDE DEF i, row
<1>5. ProcessInv'
  BY <1>0, <1>4 DEF ProcessInv
<1>6. /\ new \in SUBSET Row /\ HandsOver(i, new) /\ written' = written \union new
      /\ \A r \in new : r.by = i
      /\ \A r \in new : \A w \in written : w.ref = r.ref => w.seq <= r.seq
      /\ \A r \in written' : mode.bus /\ (r \in new \/ Queued(r)) =>
            Queued(r)' \/ <<"bus", r>> \in lost'
  BY <1>1, <1>2, <1>3
<1> HIDE DEF new
<1> QED BY <1>1, <1>3, <1>4, <1>5, <1>6, HandOverStep

\* Requests and queues that a step leaves alone.
LEMMA RequestsKept ==
    ASSUME RequestsInOrder, request' = request, next' = next, written' = written
    PROVE  RequestsInOrder'
BY DEF RequestsInOrder

LEMMA QueuesUntouched ==
    ASSUME QueuesInv, QueuesInOrder, topic' = topic, outq' = outq, written' = written,
           mode' = mode
    PROVE  QueuesInv' /\ QueuesInOrder' /\ \A r : Queued(r) => Queued(r)'
BY DEF QueuesInv, QueuesInOrder, Sorted, Before, Queued

\* A buffer that is emptied, in time or when the process ends.
LEMMA EmptyHandsOver ==
    ASSUME DorisInv, BuffersInv, NEW i \in Instance, Stores(ToSet(pending[i])),
           pending' = [pending EXCEPT ![i] = <<>>], UNCHANGED <<mode, written>>
    PROVE  HandsOver(i, {})
<1>1. /\ pending \in [Instance -> Seq(written')]
      /\ mode.batch \in Nat \ {0} /\ <<>> \in Seq(written') /\ Len(<<>>) = 0
  BY RecordsAssumption, EmptySeq DEF BuffersInv, DorisInv
<1>2. /\ pending' \in [Instance -> Seq(written')] /\ pending'[i] = <<>>
      /\ \A j \in Instance \ {i} : pending'[j] = pending[j]
  BY <1>1
<1>3. ToSet(pending'[i]) = {} /\ ToSet(pending[i]) \union {} = ToSet(pending[i])
  BY <1>2, NoMembers
<1>4. CASE mode.direct
  BY <1>1, <1>2, <1>3, <1>4 DEF HandsOver
<1>5. CASE ~mode.direct
  <2>1. ToSet(pending[i]) = {}
    BY <1>5, NoMembers DEF BuffersInv
  <2> QED BY <1>1, <1>2, <1>3, <1>5, <2>1 DEF HandsOver
<1> QED BY <1>4, <1>5

LEMMA FlushKeeps ==
    ASSUME RecordsInv, NEW i \in Instance, Flusher(i) \/ FlushOnExit(i)
    PROVE  RecordsInv'
<1>0. DorisInv /\ BuffersInv /\ QueuesInv /\ ProcessInv /\ RequestsInOrder /\ QueuesInOrder
  BY DEF RecordsInv
<1>1. /\ FlushLocked(i, pending[i]) /\ UNCHANGED <<mode, archive>> /\ written' = written
      /\ topic' = topic /\ outq' = outq /\ request' = request /\ next' = next
      /\ linked' = linked /\ sweep' = sweep
      /\ phase' = phase \/ phase' = [phase EXCEPT ![i] = "flushed"]
  BY DEF Flusher, FlushOnExit, processVars, sessionVars
<1>2. HandsOver(i, {})
  <2>1. pending[i] \in Seq(written')
    BY <1>0, <1>1 DEF BuffersInv
  <2>2. Stores(ToSet(pending[i])) /\ pending' = [pending EXCEPT ![i] = <<>>]
    BY <1>0, <1>1, <2>1, FlushStores
  <2> QED BY <1>0, <1>1, <2>2, EmptyHandsOver
<1>3. ProcessInv'
  BY <1>0, <1>1 DEF ProcessInv
<1>4. RequestsInOrder'
  BY <1>0, <1>1, RequestsKept
<1>5. QueuesInv' /\ QueuesInOrder' /\ \A r : Queued(r) => Queued(r)'
  BY <1>0, <1>1, QueuesUntouched
<1>6. {} \in SUBSET Row /\ written' = written \union {}
  BY <1>1
<1> QED BY <1>1, <1>2, <1>3, <1>4, <1>5, <1>6, HandOverStep

\* A process that ends takes its requests and its queue with it, not those of others.
LEMMA VanishKeeps ==
    ASSUME RecordsInv, NEW i \in Instance, Vanish(i), Stores(ToSet(pending[i])),
           \A r \in ToSet(outq[i]) : <<"bus", r>> \in lost',
           UNCHANGED <<mode, archive, topic, linked, next, written>>
    PROVE  RecordsInv'
<1>0. DorisInv /\ BuffersInv /\ QueuesInv /\ ProcessInv /\ RequestsInOrder /\ QueuesInOrder
  BY DEF RecordsInv
<1>1. HandsOver(i, {})
  BY <1>0, EmptyHandsOver DEF Vanish
<1>2. ProcessInv'
  BY <1>0 DEF ProcessInv, Vanish, NoSweep
<1>3. RequestsInOrder'
  <2>1. request' = [c \in Ref |-> IF request[c].at = i THEN NoRequest ELSE request[c]]
    BY DEF Vanish
  <2>2. NoRequest \in [at : Instance \union {None}, rows : Seq(Row)]
        /\ ToSet(NoRequest.rows) = {}
    BY NoMembers, EmptySeq DEF NoRequest
  <2>3. request' \in [Ref -> [at : Instance \union {None}, rows : Seq(Row)]]
    BY <1>0, <2>1, <2>2 DEF RequestsInOrder
  <2>4. ASSUME NEW c \in Ref, NEW r \in ToSet(request'[c].rows)
        PROVE  request'[c] = request[c]
    BY <2>1, <2>2, <2>4
  <2>5. ASSUME NEW c \in Ref, NEW r \in ToSet(request'[c].rows)
        PROVE  /\ request'[c].at \in Instance
               /\ r.ref = c /\ r.by = request'[c].at /\ r.seq < next[c]
               /\ \A w \in written : w.ref = c => w.seq <= r.seq
               /\ \A q \in ToSet(request'[c].rows) : q.seq = r.seq
    <3>1. request'[c] = request[c] /\ r \in ToSet(request[c].rows)
      BY <2>4, <2>5
    <3> QED BY <1>0, <3>1 DEF RequestsInOrder
  <2>6. next' = next /\ written' = written
    OBVIOUS
  <2> QED BY <1>0, <2>3, <2>5, <2>6 DEF RequestsInOrder
<1>4. /\ outq' \in [Instance -> Seq(written)] /\ ToSet(outq'[i]) = {} /\ outq'[i] = <<>>
      /\ \A j \in Instance \ {i} : outq'[j] = outq[j]
  <2>1. outq' = [outq EXCEPT ![i] = <<>>] /\ outq \in [Instance -> Seq(written)]
    BY <1>0 DEF Vanish, QueuesInv
  <2>2. <<>> \in Seq(written)
    BY EmptySeq
  <2> QED BY <2>1, <2>2, NoMembers
<1>5. QueuesInv'
  BY <1>0, <1>4 DEF QueuesInv
<1>6. QueuesInOrder'
  <2>1. Sorted(<<>>)
    BY DEF Sorted
  <2>2. ASSUME NEW j \in Instance
        PROVE  /\ Sorted(outq'[j])
               /\ \A q \in ToSet(topic), r \in ToSet(outq'[j]) : Before(q, r)
    BY <1>0, <1>4, <2>1 DEF QueuesInOrder
  <2> QED BY <1>0, <2>2 DEF QueuesInOrder, Sorted, Before
<1>7. ASSUME NEW r, Queued(r) PROVE Queued(r)' \/ <<"bus", r>> \in lost'
  BY <1>4, <1>7 DEF Queued
<1>8. {} \in SUBSET Row /\ written' = written \union {} /\ UNCHANGED <<mode, archive>>
  OBVIOUS
<1> QED BY <1>1, <1>2, <1>3, <1>5, <1>6, <1>7, <1>8, HandOverStep

\* A crash loses the buffer and the queue.
LEMMA CrashKeeps ==
    ASSUME RecordsInv, NEW i \in Instance, Crash(i)
    PROVE  RecordsInv'
<1>1. DorisInv /\ ToSet(pending[i]) \subseteq written /\ ToSet(outq[i]) \subseteq written
  BY Members DEF RecordsInv, BuffersInv, QueuesInv
<1>2. /\ Vanish(i) /\ Rare /\ UNCHANGED dorisVars
      /\ UNCHANGED <<mode, archive, topic, linked, next, written>>
      /\ lost' = lost \union {<<"doris", r>> : r \in ToSet(pending[i])}
                      \union {<<"bus", r>> : r \in ToSet(outq[i])}
  BY DEF Crash, Fault
<1>3. /\ lost \subseteq lost' /\ lost' \subseteq {"doris", "bus"} \X written'
      /\ \A r \in ToSet(pending[i]) : <<"doris", r>> \in lost'
      /\ \A r \in ToSet(outq[i]) : <<"bus", r>> \in lost'
  BY <1>1, <1>2 DEF DorisInv
<1>4. Stores(ToSet(pending[i]))
  BY <1>1, <1>2, <1>3, LosesStores
<1> QED BY <1>2, <1>3, <1>4, VanishKeeps

\* The destructor stores the buffer, and what the broker did not take in time is lost.
LEMMA CloseKeeps ==
    ASSUME RecordsInv, NEW i \in Instance, Close(i)
    PROVE  RecordsInv'
<1>1. /\ DorisInv /\ ToSet(pending[i]) \subseteq written /\ ToSet(outq[i]) \subseteq written
      /\ pending[i] \in Seq(written) /\ lost \subseteq {"doris", "bus"} \X written
  BY Members DEF RecordsInv, BuffersInv, QueuesInv, DorisInv
<1>2. Vanish(i) /\ UNCHANGED <<mode, archive, topic, linked, next, written>>
  BY DEF Close
<1>3. CASE outq[i] = <<>>
  <2>1. ToSet(outq[i]) = {}
    BY <1>3, NoMembers
  <2>2. CASE pending[i] = <<>> /\ NoFault /\ UNCHANGED <<dorisVars, lost>>
    <3>1. ToSet(pending[i]) = {} /\ lost' = lost /\ written' = written
      BY <1>2, <2>2, NoMembers
    <3>2. Stores(ToSet(pending[i]))
      BY <1>1, <2>2, <3>1, LosesStores
    <3> QED BY <1>2, <2>1, <3>2, VanishKeeps
  <2>3. CASE Execute(i, pending[i])
    <3>1. Stores(ToSet(pending[i]))
      BY <1>1, <1>2, <2>3, ExecuteStores
    <3> QED BY <1>2, <2>1, <3>1, VanishKeeps
  <2> QED BY <1>3, <2>2, <2>3 DEF Close
<1>4. CASE outq[i] # <<>>
  <2> DEFINE left == {<<"bus", r>> : r \in ToSet(outq[i])}
  <2>1. left \subseteq {"doris", "bus"} \X written
    BY <1>1
  <2>2. CASE Upsert(pending[i]) /\ lost' = lost \union left /\ Rare
    <3>1. /\ lost \subseteq lost' /\ lost' \subseteq {"doris", "bus"} \X written'
          /\ \A r \in ToSet(outq[i]) : <<"bus", r>> \in lost'
      BY <1>1, <1>2, <2>1, <2>2
    <3>2. Stores(ToSet(pending[i]))
      BY <1>1, <2>2, <3>1, UpsertStores
    <3> QED BY <1>2, <3>1, <3>2, VanishKeeps
  <2>3. CASE /\ lost' = lost \union left \union {<<"doris", r>> : r \in ToSet(pending[i])}
             /\ UNCHANGED dorisVars /\ Rare
    <3>1. /\ lost \subseteq lost' /\ lost' \subseteq {"doris", "bus"} \X written'
          /\ \A r \in ToSet(pending[i]) : <<"doris", r>> \in lost'
          /\ \A r \in ToSet(outq[i]) : <<"bus", r>> \in lost'
      BY <1>1, <1>2, <2>1, <2>3
    <3>2. Stores(ToSet(pending[i]))
      BY <1>1, <2>3, <3>1, LosesStores
    <3> QED BY <1>2, <3>1, <3>2, VanishKeeps
  <2> QED BY <1>4, <2>2, <2>3 DEF Close, Fault
<1> QED BY <1>3, <1>4

\* A step that adds nothing to the table and leaves the buffers alone.
LEMMA SinkStep ==
    ASSUME RecordsInv, UNCHANGED <<mode, written, pending>>, table' \subseteq table,
           lost \subseteq lost', Keeps,
           DorisInv', ProcessInv', RequestsInOrder', QueuesInv', QueuesInOrder',
           \A r \in written : Queued(r) => Queued(r)' \/ <<"bus", r>> \in lost'
    PROVE  RecordsInv'
<1>1. BuffersInv'
  BY DEF RecordsInv, BuffersInv
<1>2. RecordsKept' /\ NobodyOvertakes'
  <2>1. RecordsKept /\ NobodyOvertakes
    BY DEF RecordsInv
  <2> DEFINE new == {}
  <2>2. written' = written \union new /\ \A r : r \notin new
    OBVIOUS
  <2> HIDE DEF new
  <2>3. \A r \in written' : Buffered(r) <=> Buffered(r)'
    BY BuffersKept
  <2>4. /\ \A r \in written' : mode.direct /\ (r \in new \/ Buffered(r)) =>
              Kept(r)' \/ Buffered(r)' \/ <<"doris", r>> \in lost'
        /\ \A r \in written' : mode.bus /\ (r \in new \/ Queued(r)) =>
              Kept(r)' \/ Queued(r)' \/ <<"bus", r>> \in lost'
        /\ \A r \in new, q \in table : ~Overtakes(q, r)
        /\ \A r \in written', q \in table' \ table : Overtakes(q, r) => Settled(r)'
    BY <2>2, <2>3
  <2> QED BY <2>1, <2>2, <2>4, NoneVanishes
<1>3. OverwrittenKept'
  <2>1. OverwrittenKept /\ written \subseteq written' /\ table' \subseteq written'
    BY DEF RecordsInv, DorisInv
  <2> QED BY <2>1, StaysOverwritten
<1> QED BY <1>1, <1>2, <1>3 DEF RecordsInv

\* Requests begin and end, and an instance loses its connection, is told to stop or
\* comes back.
LEMMA QuietKeeps ==
    ASSUME RecordsInv, ProcessInv', RequestsInOrder',
           UNCHANGED <<mode, dorisVars, archive, topic, pending, outq, sweep, historyVars>>,
           rare' \in 0 .. MaxRare
    PROVE  RecordsInv'
<1>1. DorisInv /\ QueuesInv /\ QueuesInOrder
  BY DEF RecordsInv
<1>2. /\ table' = table /\ aged' = aged /\ archive' = archive /\ written' = written /\ lost' = lost
      /\ overwritten' = overwritten /\ unarchived' = unarchived
  BY DEF dorisVars, historyVars
<1>3. DorisInv'
  BY <1>1, <1>2 DEF DorisInv, OneRowPerKey, Key
<1>4. QueuesInv' /\ QueuesInOrder' /\ \A r : Queued(r) => Queued(r)'
  BY <1>1, <1>2, QueuesUntouched
<1>5. Keeps
  BY <1>2, TableKeeps
<1> QED BY <1>2, <1>3, <1>4, <1>5, SinkStep

LEMMA LifeKeeps ==
    ASSUME RecordsInv, NEW i \in Instance, Disconnect(i) \/ Stop(i) \/ Restart(i)
    PROVE  RecordsInv'
<1>1. /\ DorisInv /\ ProcessInv /\ RequestsInOrder
  BY DEF RecordsInv
<1>2. /\ UNCHANGED <<mode, dorisVars, archive, topic, pending, outq, sweep, historyVars>>
      /\ request' = request /\ next' = next /\ written' = written
      /\ Rare \/ NoFault
  BY DEF Disconnect, Stop, Restart, Fault, NoFault, sessionVars, historyVars
<1>3. ProcessInv'
  <2>1. /\ phase' \in [Instance -> {"serving", "stopping", "flushed", "down"}]
        /\ linked' \in [Instance -> BOOLEAN]
    BY <1>1 DEF Disconnect, Stop, Restart, ProcessInv
  <2> QED BY <1>1, <1>2, <2>1 DEF ProcessInv
<1>4. RequestsInOrder'
  BY <1>1, <1>2, RequestsKept
<1>5. rare' \in 0 .. MaxRare
  BY <1>1, <1>2, RareTyped
<1> QED BY <1>2, <1>3, <1>4, <1>5, QuietKeeps

LEMMA RequestKeeps ==
    ASSUME RecordsInv, NEW c \in Ref,
           \/ \E i \in Instance, groups \in Usages : Begin(c, i, groups)
           \/ \E i \in Instance : BeginRelease(c, i)
           \/ Detect(c)
    PROVE  RecordsInv'
<1>1. DorisInv /\ ProcessInv /\ RequestsInOrder
  BY DEF RecordsInv
<1>2. /\ RequestsInOrder'
      /\ UNCHANGED <<mode, dorisVars, archive, topic, processVars, pending, outq, sweep,
                     historyVars, rare>>
  BY <1>1, RequestStep
<1>3. ProcessInv' /\ rare' \in 0 .. MaxRare
  BY <1>1, <1>2 DEF ProcessInv, processVars, DorisInv
<1> QED BY <1>2, <1>3, QuietKeeps

\* The broker takes the oldest event of a queue, behind the earlier ones of its session,
\* or it is lost.
LEMMA DeliverKeeps ==
    ASSUME RecordsInv, NEW i \in Instance, Deliver(i)
    PROVE  RecordsInv'
<1> DEFINE event == Head(outq[i])
           rest == Tail(outq[i])
<1>0. DorisInv /\ ProcessInv /\ RequestsInOrder /\ QueuesInv /\ QueuesInOrder
  BY DEF RecordsInv
<1>1. /\ UNCHANGED <<mode, written, pending>> /\ table' = table /\ aged' = aged
      /\ overwritten' = overwritten /\ unarchived' = unarchived
      /\ archive' = archive /\ phase' = phase /\ linked' = linked /\ sweep' = sweep
      /\ request' = request /\ next' = next
      /\ outq' = [outq EXCEPT ![i] = rest] /\ outq[i] # <<>>
      /\ \/ topic' = Append(topic, event) /\ NoFault /\ lost' = lost
         \/ topic' = topic /\ Rare /\ lost' = lost \union {<<"bus", r>> : r \in ToSet(<<event>>)}
  BY DEF Deliver, dorisVars, processVars, sessionVars, Fault, Lose
<1>2. /\ outq \in [Instance -> Seq(written)] /\ topic \in Seq(written) /\ written \subseteq Row
      /\ outq[i] \in Seq(written) /\ outq[i] \in Seq(Row)
  <2>1. outq[i] \in Seq(written) /\ written \subseteq Row
    BY <1>0 DEF QueuesInv, DorisInv
  <2> QED BY <1>0, <2>1, SeqMonotonic DEF QueuesInv
<1>3. /\ event \in ToSet(outq[i]) /\ rest \in Seq(written) /\ event \in written
      /\ ToSet(outq[i]) = {event} \union ToSet(rest)
  BY <1>1, <1>2, MembersOfTail, Members
<1>4. Sorted(rest) /\ \A r \in ToSet(outq[i]) : Before(event, r)
  <2>1. Sorted(outq[i])
    BY <1>0 DEF QueuesInOrder
  <2> QED BY <1>1, <1>2, <2>1, SortedTail
<1>5. /\ mode.bus /\ event.by = i
      /\ \A q \in ToSet(topic) : Before(q, event)
      /\ \A r \in ToSet(rest) : r.by = i
  <2>1. mode.bus /\ \A r \in ToSet(outq[i]) : r.by = i
    BY <1>0, <1>1 DEF QueuesInv
  <2> QED BY <1>0, <1>3, <2>1 DEF QueuesInOrder
<1> HIDE DEF event, rest
<1>6. /\ outq' \in [Instance -> Seq(written)] /\ outq'[i] = rest
      /\ \A j \in Instance \ {i} : outq'[j] = outq[j]
  BY <1>1, <1>2, <1>3
<1>7. /\ topic' \in Seq(written) /\ Sorted(topic)'
      /\ ToSet(topic') \subseteq ToSet(topic) \union {event}
      /\ ToSet(topic) \subseteq ToSet(topic')
      /\ event \in ToSet(topic') \/ <<"bus", event>> \in lost'
      /\ lost \subseteq lost' /\ lost' \subseteq {"doris", "bus"} \X written
      /\ rare' \in 0 .. MaxRare
  <2>1. Sorted(topic) /\ lost \subseteq {"doris", "bus"} \X written
    BY <1>0 DEF QueuesInOrder, DorisInv
  <2>2. CASE topic' = Append(topic, event) /\ NoFault /\ lost' = lost
    <3>1. ToSet(topic') = ToSet(topic) \union {event} /\ topic' \in Seq(written)
      BY <1>2, <1>3, <2>2, MembersAppended
    <3>2. Sorted(Append(topic, event))
      BY <1>2, <1>3, <1>5, <2>1, SortedAppended
    <3>3. Sorted(topic)'
      BY <2>2, <3>2 DEF Sorted, Before
    <3> QED BY <1>0, <2>1, <2>2, <3>1, <3>3, RareTyped
  <2>3. CASE /\ topic' = topic /\ Rare
             /\ lost' = lost \union {<<"bus", r>> : r \in ToSet(<<event>>)}
    <3>1. lost' = lost \union {<<"bus", event>>}
      BY <2>3, OneMember
    <3>2. Sorted(topic)'
      BY <2>1, <2>3 DEF Sorted, Before
    <3> QED BY <1>0, <1>2, <1>3, <2>1, <2>3, <3>1, <3>2, RareTyped
  <2> QED BY <1>1, <2>2, <2>3
<1>8. QueuesInv'
  <2>1. ASSUME NEW j \in Instance, NEW r \in ToSet(outq'[j]) PROVE r.by = j
    BY <1>0, <1>5, <1>6, <2>1 DEF QueuesInv
  <2> QED BY <1>1, <1>5, <1>6, <1>7, <2>1 DEF QueuesInv
<1>9. QueuesInOrder'
  <2>1. ASSUME NEW j \in Instance
        PROVE  /\ Sorted(outq'[j])
               /\ \A q \in ToSet(topic'), r \in ToSet(outq'[j]) : Before(q, r)
    <3>1. CASE j = i
      <4>1. Sorted(outq'[j]) /\ ToSet(outq'[j]) \subseteq ToSet(outq[i])
        BY <1>3, <1>4, <1>6, <3>1
      <4> QED BY <1>0, <1>4, <1>7, <3>1, <4>1 DEF QueuesInOrder
    <3>2. CASE j # i
      <4>1. outq'[j] = outq[j] /\ \A r \in ToSet(outq[j]) : r.by = j
        BY <1>0, <1>6, <3>2 DEF QueuesInv
      <4>2. \A r \in ToSet(outq[j]) : Before(event, r)
        BY <1>5, <3>2, <4>1 DEF Before
      <4> QED BY <1>0, <1>7, <4>1, <4>2 DEF QueuesInOrder
    <3> QED BY <3>1, <3>2
  <2> QED BY <1>7, <2>1 DEF QueuesInOrder, Sorted, Before
<1>10. DorisInv'
  BY <1>0, <1>1, <1>7 DEF DorisInv, OneRowPerKey, Key
<1>11. ProcessInv' /\ RequestsInOrder'
  <2>1. ProcessInv'
    BY <1>0, <1>1 DEF ProcessInv
  <2> QED BY <1>0, <1>1, <2>1, RequestsKept
<1>12. Keeps
  BY <1>1, TableKeeps
<1>13. ASSUME NEW r, Queued(r) PROVE Queued(r)' \/ <<"bus", r>> \in lost'
  <2>1. CASE r \in ToSet(topic)
    BY <1>7, <2>1 DEF Queued
  <2>2. CASE \E j \in Instance : r \in ToSet(outq[j])
    <3>1. PICK j \in Instance : r \in ToSet(outq[j])
      BY <2>2
    <3>2. CASE j # i \/ r \in ToSet(rest)
      BY <1>3, <1>6, <3>1, <3>2 DEF Queued
    <3>3. CASE r = event
      BY <1>7, <3>3 DEF Queued
    <3> QED BY <1>3, <3>1, <3>2, <3>3
  <2> QED BY <1>13, <2>1, <2>2 DEF Queued
<1> QED BY <1>1, <1>7, <1>8, <1>9, <1>10, <1>11, <1>12, <1>13, SinkStep

\* The routine load takes the oldest event of the topic: what its instance wrote before
\* for the session is no longer queued.
LEMMA LoadKeeps ==
    ASSUME RecordsInv, Load
    PROVE  RecordsInv'
<1>a. PICK event : event = Head(topic)
  OBVIOUS
<1>0. /\ DorisInv /\ BuffersInv /\ ProcessInv /\ RequestsInOrder /\ QueuesInv /\ QueuesInOrder
      /\ OverwrittenKept /\ RecordsKept /\ NobodyOvertakes
  BY DEF RecordsInv
<1>1. /\ topic # <<>> /\ topic' = Tail(topic) /\ Upsert(<<event>>)
      /\ mode' = mode /\ archive' = archive /\ phase' = phase /\ linked' = linked
      /\ pending' = pending /\ outq' = outq /\ sweep' = sweep /\ request' = request
      /\ next' = next /\ written' = written /\ lost' = lost /\ rare' = rare
  BY <1>a DEF Load, processVars, sessionVars, historyVars
<1>2. /\ topic \in Seq(written) /\ topic \in Seq(Row) /\ mode.bus
      /\ written \subseteq Row /\ outq \in [Instance -> Seq(written)]
  BY <1>0, <1>1, SeqMonotonic DEF QueuesInv, DorisInv
<1>3. /\ event \in written /\ topic' \in Seq(written)
      /\ ToSet(topic) = {event} \union ToSet(topic')
  BY <1>a, <1>1, <1>2, MembersOfTail, Members
<1>4. Sorted(topic)' /\ \A r \in ToSet(topic) : Before(event, r)
  <2>1. Sorted(topic)
    BY <1>0 DEF QueuesInOrder
  <2>2. Sorted(Tail(topic)) /\ \A r \in ToSet(topic) : Before(event, r)
    BY <1>a, <1>1, <1>2, <2>1, SortedTail
  <2> QED BY <1>1, <2>2 DEF Sorted, Before
<1>5. \A i \in Instance : \A r \in ToSet(outq[i]) : Before(event, r)
  BY <1>0, <1>3 DEF QueuesInOrder
<1>6. /\ table' \subseteq table \union {event} /\ aged' \subseteq aged /\ aged' \subseteq table'
      /\ OneRowPerKey' /\ event \in table' \union overwritten'
      /\ unarchived' = unarchived /\ overwritten' \subseteq written
      /\ Keeps
  <2>1. OneRowPerKey /\ aged \subseteq table
    BY <1>0 DEF DorisInv
  <2>2. ToSet(<<event>>) = {event} /\ <<event>> \in Seq({event})
    BY OneMember
  <2> DEFINE rows == <<event>>
  <2>3. Upsert(rows) /\ rows \in Seq({event}) /\ ToSet(rows) = {event}
    BY <1>1, <2>2
  <2> HIDE DEF rows
  <2>4. /\ table' \subseteq table \union ToSet(rows)
        /\ aged' \subseteq aged /\ aged' \subseteq table'
        /\ OneRowPerKey'
        /\ \A r \in table \union ToSet(rows) : Filed(r)' /\ r \in table' \union overwritten'
        /\ Replaces(ToSet(rows))
    BY <2>1, <2>3, UpsertFiles
  <2>5. Keeps
    BY <1>1, <2>4 DEF Keeps, Replaces
  <2>6. unarchived' = unarchived /\ overwritten' \subseteq written
    BY <1>0, <1>3, <2>3, <2>4 DEF Replaces, DorisInv
  <2> QED BY <2>3, <2>4, <2>5, <2>6
<1>7. DorisInv' /\ BuffersInv' /\ ProcessInv' /\ RequestsInOrder'
  <2>1. DorisInv'
    BY <1>0, <1>1, <1>3, <1>6 DEF DorisInv
  <2>2. BuffersInv'
    BY <1>0, <1>1 DEF BuffersInv
  <2>3. ProcessInv'
    BY <1>0, <1>1 DEF ProcessInv
  <2> QED BY <1>0, <1>1, <2>1, <2>2, <2>3, RequestsKept
<1>8. QueuesInv'
  BY <1>0, <1>1, <1>2, <1>3 DEF QueuesInv
<1>9. QueuesInOrder'
  <2>1. \A i \in Instance : /\ Sorted(outq'[i])
                            /\ \A q \in ToSet(topic'), r \in ToSet(outq'[i]) : Before(q, r)
    BY <1>0, <1>1, <1>3 DEF QueuesInOrder
  <2> QED BY <1>4, <2>1 DEF QueuesInOrder, Sorted, Before
<1>10. RecordsKept' /\ NobodyOvertakes'
  <2>2. \A r : Kept(r) => Kept(r)'
    BY <1>6, StaysKept
  <2>3. Kept(event)'
    BY <1>6 DEF Kept
  <2>4. ASSUME NEW r, Queued(r) PROVE Queued(r)' \/ Kept(r)'
    <3>1. CASE r = event
      BY <2>3, <3>1
    <3>2. CASE r # event
      BY <1>1, <1>3, <2>4, <3>2 DEF Queued
    <3> QED BY <3>1, <3>2
  <2>5. ASSUME NEW r \in written, NEW q \in table' \ table, Overtakes(q, r) PROVE Settled(r)'
    <3>1. q = event /\ r \in Row /\ event \in Row
      BY <1>2, <1>3, <1>6, <2>5
    <3>2. ~Before(event, r)
      BY <2>5, <3>1, RowParts DEF Overtakes, Before
    <3>3. ~Queued(r)
      BY <1>4, <1>5, <3>2 DEF Queued
    <3>4. Kept(r) \/ <<"bus", r>> \in lost
      BY <1>0, <1>2, <2>5, <3>3 DEF RecordsKept
    <3> QED BY <1>1, <2>2, <3>4 DEF Settled
  <2> DEFINE new == {}
  <2>6. written' = written \union new /\ \A r : r \notin new
    BY <1>1
  <2> HIDE DEF new
  <2>7. \A r : Buffered(r) => Buffered(r)'
    BY <1>1, BuffersKept
  <2>8. RecordsKept /\ NobodyOvertakes /\ lost \subseteq lost' /\ mode' = mode /\ Keeps
    BY <1>0, <1>1, <1>6
  <2>9. /\ \A r \in written' : mode.direct /\ (r \in new \/ Buffered(r)) =>
              Kept(r)' \/ Buffered(r)' \/ <<"doris", r>> \in lost'
        /\ \A r \in written' : mode.bus /\ (r \in new \/ Queued(r)) =>
              Kept(r)' \/ Queued(r)' \/ <<"bus", r>> \in lost'
        /\ \A r \in new, q \in table : ~Overtakes(q, r)
        /\ \A r \in written', q \in table' \ table : Overtakes(q, r) => Settled(r)'
    BY <1>1, <2>4, <2>5, <2>6, <2>7
  <2> QED BY <2>6, <2>8, <2>9, NoneVanishes
<1>11. OverwrittenKept'
  <2>1. written \subseteq written' /\ table' \subseteq written'
    BY <1>1, <1>7 DEF DorisInv
  <2> QED BY <1>0, <1>6, <2>1, StaysOverwritten
<1> QED BY <1>7, <1>8, <1>9, <1>10, <1>11 DEF RecordsInv

\* A sweep archives the rows outside the window and deletes those that are outside it
\* then: what it deletes is archived, or counted as unarchived.
LEMMA SweepKeeps ==
    ASSUME RecordsInv,
           \/ \E i \in Instance : Archive(i) \/ DeleteAged(i)
           \/ \E r \in table : RowAges(r)
    PROVE  RecordsInv'
<1>0. DorisInv /\ ProcessInv /\ RequestsInOrder /\ QueuesInv /\ QueuesInOrder
  BY DEF RecordsInv
<1>1. /\ UNCHANGED <<mode, written, pending>> /\ topic' = topic /\ outq' = outq
      /\ phase' = phase /\ linked' = linked /\ request' = request /\ next' = next
      /\ lost' = lost
      /\ Rare \/ NoFault
  BY DEF Archive, DeleteAged, RowAges, processVars, sessionVars, historyVars, Fault, NoFault
<1>2. RequestsInOrder' /\ QueuesInv' /\ QueuesInOrder' /\ \A r : Queued(r) => Queued(r)'
  BY <1>0, <1>1, QueuesUntouched, RequestsKept
<1>3. rare' \in 0 .. MaxRare
  BY <1>0, <1>1, RareTyped
<1>4. CASE \E i \in Instance : Archive(i)
  <2>1. PICK i \in Instance : /\ sweep' = [sweep EXCEPT ![i] = aged] /\ table' = table
                              /\ archive' = archive \union aged /\ aged' = aged
                              /\ overwritten' = overwritten /\ unarchived' = unarchived
    BY <1>4 DEF Archive, dorisVars
  <2>2. DorisInv'
    BY <1>0, <1>1, <1>3, <2>1 DEF DorisInv, OneRowPerKey, Key
  <2>3. ProcessInv'
    <3>1. aged \in SUBSET Row
      BY <1>0 DEF DorisInv
    <3> QED BY <1>0, <1>1, <2>1, <3>1 DEF ProcessInv
  <2>4. Keeps
    BY <2>1, TableKeeps
  <2> QED BY <1>1, <1>2, <2>1, <2>2, <2>3, <2>4, SinkStep
<1>5. CASE \E i \in Instance : DeleteAged(i)
  <2>1. PICK i \in Instance : /\ sweep[i] # NoSweep /\ sweep' = [sweep EXCEPT ![i] = NoSweep]
                              /\ archive' = archive /\ overwritten' = overwritten
                              /\ \/ /\ table' = table \ aged /\ aged' = {}
                                    /\ unarchived' = unarchived \union (aged \ archive)
                                 \/ table' = table /\ aged' = aged /\ unarchived' = unarchived
    BY <1>5 DEF DeleteAged, dorisVars
  <2>2. DorisInv'
    BY <1>0, <1>1, <1>3, <2>1 DEF DorisInv, OneRowPerKey, Key
  <2>3. ProcessInv'
    BY <1>0, <1>1, <2>1 DEF ProcessInv, NoSweep
  <2>4. Keeps
    <3>1. CASE table' = table /\ unarchived' = unarchived
      BY <2>1, <3>1, TableKeeps
    <3>2. CASE table' = table \ aged /\ unarchived' = unarchived \union (aged \ archive)
      <4>1. ASSUME NEW r \in table
            PROVE  /\ r \in table' \union overwritten' \union archive' \union unarchived'
                   /\ Filed(r)' \/ r \in archive' \union unarchived'
        <5>1. CASE r \in aged
          BY <2>1, <3>2, <5>1
        <5>2. CASE r \notin aged
          <6>1. r \in table'
            BY <3>2, <5>2
          <6> QED BY <6>1 DEF Filed, Key
        <5> QED BY <5>1, <5>2
      <4> QED BY <2>1, <3>2, <4>1 DEF Keeps
    <3> QED BY <2>1, <3>1, <3>2
  <2>5. table' \subseteq table
    BY <2>1
  <2> QED BY <1>1, <1>2, <2>2, <2>3, <2>4, <2>5, SinkStep
<1>6. CASE \E r \in table : RowAges(r)
  <2>1. PICK r \in table : /\ aged' = aged \union {r} /\ table' = table
                           /\ archive' = archive /\ sweep' = sweep
                           /\ overwritten' = overwritten /\ unarchived' = unarchived
    BY <1>6 DEF RowAges
  <2>2. DorisInv'
    BY <1>0, <1>1, <1>3, <2>1 DEF DorisInv, OneRowPerKey, Key
  <2>3. ProcessInv'
    BY <1>0, <1>1, <2>1 DEF ProcessInv
  <2>4. Keeps
    BY <2>1, TableKeeps
  <2> QED BY <1>1, <1>2, <2>1, <2>2, <2>3, <2>4, SinkStep
<1> QED BY <1>4, <1>5, <1>6

-----------------------------------------------------------------------------
(* The specification. *)

LEMMA RecordsInitially ==
    ASSUME RecordsInit
    PROVE  RecordsInv
<1>1. DorisInv
  BY RecordsAssumption DEF RecordsInit, DorisInv, OneRowPerKey
<1>2. BuffersInv
  <2>1. pending \in [Instance -> Seq(written)] /\ \A i \in Instance : pending[i] = <<>>
    BY EmptySeq DEF RecordsInit
  <2>2. mode.batch \in Nat \ {0} /\ Len(<<>>) = 0
    BY RecordsAssumption, EmptySeq DEF RecordsInit
  <2>3. \A i \in Instance : Len(pending[i]) < mode.batch /\ ToSet(pending[i]) = {}
    BY <2>1, <2>2, NoMembers
  <2> QED BY <2>1, <2>3 DEF BuffersInv
<1>3. QueuesInv /\ QueuesInOrder
  <2>1. /\ topic = <<>> /\ outq \in [Instance -> Seq(written)]
        /\ topic \in Seq(written) /\ \A i \in Instance : outq[i] = <<>>
    BY EmptySeq DEF RecordsInit
  <2>2. Sorted(<<>>) /\ ToSet(<<>>) = {}
    BY NoMembers DEF Sorted
  <2> QED BY <2>1, <2>2 DEF QueuesInv, QueuesInOrder
<1>4. ProcessInv
  BY DEF RecordsInit, ProcessInv, NoSweep
<1>5. RequestsInOrder
  <2>1. <<>> \in Seq(Row) /\ ToSet(<<>>) = {}
    BY EmptySeq, NoMembers
  <2>2. NoRequest \in [at : Instance \union {None}, rows : Seq(Row)] /\ ToSet(NoRequest.rows) = {}
    BY <2>1 DEF NoRequest
  <2>3. 0 \in 0 .. MaxSeq + 1
    BY RecordsAssumption
  <2> QED BY <2>2, <2>3 DEF RecordsInit, RequestsInOrder
<1>6. OverwrittenKept /\ RecordsKept /\ NobodyOvertakes
  BY DEF RecordsInit, OverwrittenKept, RecordsKept, NobodyOvertakes
<1> QED BY <1>1, <1>2, <1>3, <1>4, <1>5, <1>6 DEF RecordsInv

LEMMA RecordsStep ==
    ASSUME RecordsInv, [RecordsNext]_recordVars
    PROVE  RecordsInv'
<1>1. CASE UNCHANGED recordVars
  <2>1. /\ UNCHANGED <<mode, dorisVars, archive, topic, pending, outq, sweep, historyVars>>
        /\ phase' = phase /\ linked' = linked /\ sweep' = sweep /\ request' = request
        /\ next' = next /\ written' = written /\ rare' = rare
    BY <1>1 DEF recordVars, processVars, sessionVars, historyVars
  <2>2. ProcessInv' /\ rare' \in 0 .. MaxRare
    BY <2>1 DEF RecordsInv, ProcessInv, DorisInv
  <2>3. RequestsInOrder'
    BY <2>1, RequestsKept DEF RecordsInv
  <2> QED BY <2>1, <2>2, <2>3, QuietKeeps
<1>2. ASSUME NEW c \in Ref, SessionStep(c) PROVE RecordsInv'
  BY <1>2, RequestKeeps, WriteKeeps DEF SessionStep
<1>3. ASSUME NEW i \in Instance, InstanceStep(i) PROVE RecordsInv'
  BY <1>3, FlushKeeps, DeliverKeeps, SweepKeeps, CrashKeeps, CloseKeeps, LifeKeeps
     DEF InstanceStep
<1>4. CASE \E r \in table : RowAges(r)
  BY <1>4, SweepKeeps
<1>5. CASE Load
  BY <1>5, LoadKeeps
<1> QED BY <1>1, <1>2, <1>3, <1>4, <1>5 DEF RecordsNext

\* In every configuration, on any number of instances: buffers stay below the batch size,
\* a key has one row, what is stored, queued or lost was written, and the records that an
\* instance writes for a session stay in order in its queue and in the topic; none vanishes
\* before it came to the table unless a sink lost it, and none overtakes another
\* (cdr.cpp, all of CdrWriter).
THEOREM RecordsKeepOrder == RecordsSpec => []RecordsInv
<1>1. RecordsInit => RecordsInv
  BY RecordsInitially
<1>2. RecordsInv /\ [RecordsNext]_recordVars => RecordsInv'
  BY RecordsStep
<1> QED BY <1>1, <1>2, PTL DEF RecordsSpec

LEMMA RecordsTyped ==
    ASSUME RecordsInv
    PROVE  RecordsTypeOK
<1>1. DorisInv /\ BuffersInv /\ QueuesInv /\ ProcessInv /\ RequestsInOrder
  BY DEF RecordsInv
<1>2. /\ mode \in Modes /\ table \subseteq Row /\ aged \subseteq table /\ archive \subseteq Row
      /\ \A r, s \in table : Key(r) = Key(s) => r = s
      /\ written \subseteq Row /\ lost \subseteq {"doris", "bus"} \X written
      /\ rare \in 0 .. MaxRare
  BY <1>1 DEF DorisInv, OneRowPerKey
<1>3. ToSet(topic) \subseteq Row
  BY <1>1, <1>2, Members DEF QueuesInv
<1>4. \A i \in Instance : /\ ToSet(pending[i]) \subseteq Row /\ ToSet(outq[i]) \subseteq Row
                          /\ sweep[i] \subseteq Row
                          /\ Len(pending[i]) < mode.batch
  <2> SUFFICES ASSUME NEW i \in Instance
               PROVE  /\ ToSet(pending[i]) \subseteq Row /\ ToSet(outq[i]) \subseteq Row
                      /\ sweep[i] \subseteq Row
                      /\ Len(pending[i]) < mode.batch
    OBVIOUS
  <2>1. pending[i] \in Seq(written) /\ Len(pending[i]) < mode.batch
    BY <1>1 DEF BuffersInv
  <2>2. outq[i] \in Seq(written)
    BY <1>1 DEF QueuesInv
  <2>3. sweep[i] \in SUBSET Row
    BY <1>1 DEF ProcessInv
  <2> QED BY <1>2, <2>1, <2>2, <2>3, Members
<1>5. \A c \in Ref : /\ request[c].at \in Instance \union {None}
                     /\ ToSet(request[c].rows) \subseteq Row
  <2> SUFFICES ASSUME NEW c \in Ref
               PROVE  request[c].at \in Instance \union {None} /\ ToSet(request[c].rows) \subseteq Row
    OBVIOUS
  <2>1. request[c].at \in Instance \union {None} /\ request[c].rows \in Seq(Row)
    BY <1>1 DEF RequestsInOrder
  <2> QED BY <2>1, Members
<1>6. /\ phase \in [Instance -> {"serving", "stopping", "flushed", "down"}]
      /\ linked \in [Instance -> BOOLEAN] /\ next \in [Ref -> 0 .. MaxSeq + 1]
  BY <1>1 DEF ProcessInv, RequestsInOrder
<1> QED BY <1>2, <1>3, <1>4, <1>5, <1>6 DEF RecordsTypeOK

\* The table holds one row per key, and a crash can take fewer rows than the batch
\* (cdr.cpp, flush_locked).
THEOREM RecordsTypeCorrect == RecordsSpec => []RecordsTypeOK
<1>1. RecordsInv => RecordsTypeOK
  BY RecordsTyped
<1> QED BY <1>1, RecordsKeepOrder, PTL

\* A written record stays in a buffer, the table or an archive until a fault takes it, the
\* record of another usage of its request replaces it, or a sweep deletes it that came too
\* late to archive it (cdr.cpp, write, flush_locked, apply_retention, ~CdrWriter).
THEOREM NothingVanishesHolds == RecordsSpec => []NothingVanishes
<1>1. RecordsInv => NothingVanishes
  <2> SUFFICES ASSUME RecordsInv PROVE NothingVanishes
    OBVIOUS
  <2>1. OverwrittenKept /\ RecordsKept
    BY DEF RecordsInv
  <2>2. \A r : Kept(r) => Stored(r) \/ Displaced(r)
    BY <2>1 DEF Kept, Stored, Displaced, OverwrittenKept
  <2> QED BY <2>1, <2>2 DEF RecordsKept, NothingVanishes
<1> QED BY <1>1, RecordsKeepOrder, PTL

\* A number that detect_gaps misses: its record was lost or deleted by a sweep, or another
\* instance served the session too and still holds it.
LEMMA GapsHaveReasons ==
    ASSUME RecordsInv
    PROVE  GapsExplained
<1> DEFINE Explained(c, r) ==
        \/ \E sink \in {"doris", "bus"} : <<sink, r>> \in lost
        \/ r \in archive \union unarchived
        \/ (Buffered(r) \/ Queued(r)) /\ \E q \in written : q.ref = c /\ q.by # r.by
<1>0. /\ DorisInv /\ OverwrittenKept /\ RecordsKept /\ NobodyOvertakes
      /\ mode.direct \/ mode.bus
  <2>1. mode \in Modes
    BY DEF RecordsInv, DorisInv
  <2> QED BY <2>1, RecordsAssumption DEF RecordsInv
<1>1. ASSUME NEW c \in Ref, NEW s \in Gaps(c), NEW r \in Records(c, s)
      PROVE  \E t \in Records(c, s) : Explained(c, t)
  <2>1. /\ s \in 0 .. MaxSeq /\ \A x \in table : x.ref = c => x.seq # s
        /\ \E q \in table : q.ref = c /\ s < q.seq
    BY <1>1 DEF Gaps
  <2>2. PICK q \in table : q.ref = c /\ s < q.seq
    BY <2>1
  <2>3. /\ r \in written /\ r.ref = c /\ r.seq = s
        /\ q \in written /\ q \in Row /\ r \in Row
    BY <1>0, <1>1 DEF Records, DorisInv
  <2>4. ASSUME Kept(r) PROVE \E t \in Records(c, s) : Explained(c, t)
    <3>1. PICK t \in table \union archive \union unarchived : Key(t) = Key(r)
      BY <1>0, <2>4 DEF Kept, KeyKept, OverwrittenKept
    <3>2. t.ref = c /\ t.seq = s
      BY <2>3, <3>1 DEF Key
    <3>3. t \in archive \union unarchived /\ t \in Records(c, s)
      BY <1>0, <2>1, <3>1, <3>2 DEF Records, DorisInv
    <3> QED BY <3>3
  <2>5. CASE q.by = r.by
    <3>1. Overtakes(q, r)
      BY <2>2, <2>3, <2>5, RowParts DEF Overtakes
    <3>2. Settled(r)
      BY <1>0, <2>3, <3>1 DEF NobodyOvertakes
    <3>3. CASE <<"doris", r>> \in lost \/ <<"bus", r>> \in lost
      BY <1>1, <3>3
    <3> QED BY <2>4, <3>2, <3>3 DEF Settled
  <2>6. CASE q.by # r.by
    <3>1. \/ Kept(r) \/ Buffered(r) \/ Queued(r)
          \/ <<"doris", r>> \in lost \/ <<"bus", r>> \in lost
      BY <1>0, <2>3 DEF RecordsKept
    <3>2. \E p \in written : p.ref = c /\ p.by # r.by
      BY <2>2, <2>3, <2>6
    <3>3. CASE <<"doris", r>> \in lost \/ <<"bus", r>> \in lost
      BY <1>1, <3>3
    <3>4. CASE Buffered(r) \/ Queued(r)
      BY <1>1, <3>2, <3>4
    <3> QED BY <2>4, <3>1, <3>3, <3>4
  <2> QED BY <2>5, <2>6
<1>2. ASSUME NEW c \in Ref, NEW s \in Gaps(c), Records(c, s) # {}
      PROVE  \E t \in Records(c, s) : Explained(c, t)
  BY <1>1, <1>2
<1> QED BY <1>2 DEF GapsExplained

\* A gap in the sequence numbers of a session means what the answer says, or a record that
\* a sweep took, or one that another instance has yet to store (cdr.cpp, detect_gaps;
\* main.cpp, Release).
THEOREM GapsExplainedHolds == RecordsSpec => []GapsExplained
<1>1. RecordsInv => GapsExplained
  BY GapsHaveReasons
<1> QED BY <1>1, RecordsKeepOrder, PTL
=============================================================================
