-------------------------- MODULE JournalFileProofs --------------------------
(***************************************************************************)
(* Theorems about JournalFile: type correctness for every value of the     *)
(* constants; as long as a failed journal stays unwritable, that no record *)
(* whose append returned TRUE is lost silently, except by a quarantine cut *)
(* short, and that the file implements DurableLog; and what holds without  *)
(* the exception where no quarantine is cut short.                         *)
(***************************************************************************)
EXTENDS JournalFile, SequenceTheorems, TLAPS

USE JournalAssumption DEF JournalAssumption

-------------------------------------------------------------------------------
(* Sequences and their elements. *)

LEMMA EmptySet == ToSet(<<>>) = {}
BY DEF ToSet

LEMMA SingletonSet == ASSUME NEW e PROVE ToSet(<<e>>) = {e}
BY DEF ToSet

LEMMA AppendSet ==
    ASSUME NEW S, NEW s \in Seq(S), NEW e \in S
    PROVE  Append(s, e) \in Seq(S) /\ ToSet(Append(s, e)) = ToSet(s) \cup {e}
<1>1. ToSet(Append(s, e)) \subseteq ToSet(s) \cup {e}
  BY AppendProperties DEF ToSet
<1>2. ToSet(s) \cup {e} \subseteq ToSet(Append(s, e))
  BY AppendProperties DEF ToSet
<1> QED
  BY <1>1, <1>2, AppendProperties

LEMMA LastInSet ==
    ASSUME NEW S, NEW s \in Seq(S), s # <<>>
    PROVE  Last(s) \in ToSet(s)
BY EmptySeq DEF Last, ToSet

\* A sequence of at most one element is empty or a singleton.
LEMMA ShortSeq ==
    ASSUME NEW S, NEW t \in Seq(S), Len(t) <= 1
    PROVE  t = <<>> \/ \E e \in S : t = <<e>>
<1>1. CASE t = <<>>
  BY <1>1
<1>2. CASE t # <<>>
  <2>1. PICK s \in Seq(S), e \in S : t = Append(s, e)
    BY <1>2, SequenceEmptyOrAppend
  <2>2. Len(s) = 0
    BY <2>1, AppendProperties, LenProperties
  <2>3. s = <<>>
    BY <2>2, EmptySeq
  <2> QED
    BY <2>1, <2>3
<1> QED BY <1>1, <1>2

\* What follows the last newline, put behind the lines and cut off again.
LEMMA FrontOfAppend ==
    ASSUME NEW S, NEW s \in Seq(S), NEW e \in S
    PROVE  Front(Append(s, e)) = s /\ Last(Append(s, e)) = e
<1>1. /\ Append(s, e) \in Seq(S)
      /\ Len(Append(s, e)) = Len(s) + 1
      /\ \A i \in 1 .. Len(s) : Append(s, e)[i] = s[i]
      /\ Append(s, e)[Len(s) + 1] = e
  BY AppendProperties
<1>2. Len(s) \in Nat
  BY LenProperties
<1>3. Last(Append(s, e)) = e
  BY <1>1 DEF Last
<1>4. Front(Append(s, e)) = s
  <2> DEFINE f == SubSeq(Append(s, e), 1, Len(s))
  <2>1. f \in Seq(S) /\ Len(f) = Len(s) /\ \A i \in 1 .. Len(s) : f[i] = s[i]
    BY <1>1, <1>2, SubSeqProperties
  <2>2. f = s
    BY <2>1, SeqEqual
  <2> QED
    BY <1>1, <1>2, <2>2 DEF Front
<1> QED BY <1>3, <1>4

\* Lines with what follows the last newline.
LEMMA ConcatSet ==
    ASSUME NEW S, NEW s \in Seq(S), NEW t \in Seq(S), Len(t) <= 1
    PROVE  ToSet(s \o t) = ToSet(s) \cup ToSet(t)
<1>1. CASE t = <<>>
  BY <1>1, ConcatEmptySeq, EmptySet
<1>2. ASSUME NEW e \in S, t = <<e>>
      PROVE  ToSet(s \o t) = ToSet(s) \cup ToSet(t)
  <2>1. s \o t = Append(s, e) /\ ToSet(t) = {e}
    BY <1>2, AppendIsConcat, SingletonSet
  <2> QED
    BY <2>1, AppendSet
<1> QED
  BY <1>1, <1>2, ShortSeq

\* The first lines of a file.
LEMMA PrefixSet ==
    ASSUME NEW S, NEW s \in Seq(S), NEW n \in 0 .. Len(s)
    PROVE  SubSeq(s, 1, n) \in Seq(S) /\ ToSet(SubSeq(s, 1, n)) \subseteq ToSet(s)
<1>1. Len(s) \in Nat
  BY LenProperties
<1>2. /\ SubSeq(s, 1, n) \in Seq(S) /\ Len(SubSeq(s, 1, n)) = n
      /\ \A i \in 1 .. n : SubSeq(s, 1, n)[i] = s[i]
  BY <1>1, SubSeqProperties
<1> QED
  BY <1>1, <1>2 DEF ToSet

\* At most a piece of the line that would come next.
LEMMA PieceSet ==
    ASSUME NEW S, NEW s \in Seq(S), NEW n \in 0 .. Len(s), NEW t, Malformed \in S,
           \/ t = <<>>
           \/ n < Len(s) /\ t \in {<<Malformed>>, <<s[n + 1]>>}
    PROVE  /\ t \in Seq(S) /\ Len(t) <= 1
           /\ ToSet(t) \subseteq ToSet(s) \cup {Malformed}
<1>1. CASE t = <<>>
  BY <1>1, EmptySeq, EmptySet
<1>2. CASE n < Len(s) /\ t = <<Malformed>>
  BY <1>2, SingletonSet
<1>3. CASE n < Len(s) /\ t = <<s[n + 1]>>
  <2>1. s[n + 1] \in S /\ s[n + 1] \in ToSet(s)
    BY <1>3, LenProperties, ElementOfSeq DEF ToSet
  <2> QED
    BY <1>3, <2>1, SingletonSet
<1> QED BY <1>1, <1>2, <1>3

-------------------------------------------------------------------------------
(***************************************************************************)
(* Type correctness.  What a restart finds in memory comes from the file,  *)
(* so the file must be known to hold no record that was not yet numbered.  *)
(***************************************************************************)
Contents == Records \cup {Malformed}

FileInv ==
    /\ JournalTypeOK
    /\ ToSet(lines) \subseteq 0 .. next - 1
    /\ ToSet(frag) \subseteq 0 .. next - 1

LEMMA BeginAppendType ==
    ASSUME FileInv, BeginAppend
    PROVE  /\ next \in Records /\ next' = next + 1 /\ next' \in 1 .. MaxRecords + 1
           /\ 0 .. next - 1 \subseteq 0 .. next' - 1
BY DEF FileInv, JournalTypeOK, BeginAppend, Records

\* A whole line is written.
LEMMA WrittenType ==
    ASSUME FileInv, BeginAppend, lines' = Written(next), frag' = <<>>
    PROVE  /\ lines' \in Seq(Contents) /\ frag' \in Seq(Contents) /\ Len(frag') <= 1
           /\ ToSet(lines') \subseteq 0 .. next' - 1
           /\ ToSet(frag') \subseteq 0 .. next' - 1
<1> DEFINE e == IF frag = <<>> THEN next ELSE Malformed
<1>1. e \in Contents /\ e \in 0 .. next' - 1
  BY BeginAppendType DEF Contents, Malformed, Records
<1>2. lines \in Seq(Contents) /\ ToSet(lines) \subseteq 0 .. next' - 1
  BY BeginAppendType DEF FileInv, JournalTypeOK, Contents
<1>3. lines' = Append(lines, e)
  BY DEF Written
<1> HIDE DEF e
<1>4. lines' \in Seq(Contents) /\ ToSet(lines') = ToSet(lines) \cup {e}
  BY <1>1, <1>2, <1>3, AppendSet
<1>5. frag' \in Seq(Contents) /\ Len(frag') <= 1 /\ ToSet(frag') = {}
  BY EmptySeq, EmptySet
<1> QED
  BY <1>1, <1>2, <1>4, <1>5

\* A write is cut short.
LEMMA CutShortType ==
    ASSUME FileInv, BeginAppend, CutShort
    PROVE  /\ lines' \in Seq(Contents) /\ frag' \in Seq(Contents) /\ Len(frag') <= 1
           /\ ToSet(lines') \subseteq 0 .. next' - 1
           /\ ToSet(frag') \subseteq 0 .. next' - 1
<1>1. CASE lines' = Written(next) /\ frag' = <<>>
  BY <1>1, WrittenType
<1>2. CASE frag' \in Fragments /\ UNCHANGED lines
  <2>1. PICK e \in {Malformed, next} : frag' = <<e>>
    BY <1>2 DEF Fragments
  <2>2. e \in Contents /\ e \in 0 .. next' - 1
    BY BeginAppendType DEF Contents, Malformed, Records
  <2>3. frag' \in Seq(Contents) /\ Len(frag') <= 1 /\ ToSet(frag') = {e}
    BY <2>1, <2>2, SingletonSet
  <2> QED
    BY <1>2, <2>2, <2>3, BeginAppendType DEF FileInv, JournalTypeOK, Contents
<1> QED
  BY <1>1, <1>2 DEF CutShort

LEMMA AppendReturnsTrueType ==
    ASSUME FileInv, AppendReturnsTrue, degraded' \in BOOLEAN
    PROVE  FileInv'
<1>1. BeginAppend /\ lines' = Written(next) /\ frag' = <<>>
  BY DEF AppendReturnsTrue
<1>2. /\ returned' \subseteq 1 .. next' - 1 /\ memory' \subseteq 1 .. next' - 1
      /\ abandoned' \subseteq 1 .. next' - 1
      /\ up' \in BOOLEAN /\ available' \in BOOLEAN
  BY <1>1, BeginAppendType DEF AppendReturnsTrue, FileInv, JournalTypeOK, Records
<1> QED
  BY <1>1, <1>2, WrittenType, BeginAppendType DEF FileInv, JournalTypeOK, Contents

\* The file with its missing final newline, and what recovery leaves of it.
LEMMA AllLinesType ==
    ASSUME FileInv
    PROVE  /\ AllLines \in Seq(Contents)
           /\ ToSet(AllLines) \subseteq 0 .. next - 1
<1>1. /\ lines \in Seq(Contents) /\ frag \in Seq(Contents) /\ Len(frag) <= 1
  BY DEF FileInv, JournalTypeOK, Contents
<1>2. CASE frag = <<>>
  BY <1>1, <1>2, ConcatEmptySeq DEF AllLines, FileInv
<1>3. ASSUME NEW e \in Contents, frag = <<e>>
      PROVE  /\ AllLines \in Seq(Contents)
             /\ ToSet(AllLines) \subseteq 0 .. next - 1
  <2>1. AllLines = Append(lines, e)
    BY <1>1, <1>3, AppendIsConcat DEF AllLines
  <2>2. e \in 0 .. next - 1
    BY <1>3, SingletonSet DEF FileInv
  <2> QED
    BY <1>1, <2>1, <2>2, AppendSet DEF FileInv
<1> QED
  BY <1>1, <1>2, <1>3, ShortSeq

LEMMA RecoveredType ==
    ASSUME FileInv
    PROVE  /\ Recovered \in Seq(Contents)
           /\ ToSet(Recovered) \subseteq ToSet(AllLines)
<1>1. CASE ~TornTail
  BY <1>1, AllLinesType DEF Recovered
<1>2. CASE TornTail
  <2>1. PICK s \in Seq(Contents), e \in Contents : AllLines = Append(s, e)
    BY <1>2, AllLinesType, SequenceEmptyOrAppend DEF TornTail
  <2>2. Recovered = s
    BY <1>2, <2>1, FrontOfAppend DEF Recovered
  <2> QED
    BY <2>1, <2>2, AppendSet
<1> QED BY <1>1, <1>2

LEMMA ReplayedType ==
    ASSUME NEW kept, ToSet(kept) \subseteq 0 .. next - 1
    PROVE  Replayed(kept) \subseteq 1 .. next - 1
BY DEF Replayed, Malformed

\* What a constructor that stops has made of the file.
LEMMA StartStopsType ==
    ASSUME FileInv, StartStops
    PROVE  /\ lines' \in Seq(Contents) /\ frag' \in Seq(Contents) /\ Len(frag') <= 1
           /\ ToSet(lines') \subseteq 0 .. next - 1
           /\ ToSet(frag') \subseteq 0 .. next - 1
           /\ ToSet(lines' \o frag') \subseteq 0 .. next - 1
           /\ abandoned' \subseteq 1 .. next - 1
<1>1. /\ lines' \in Seq(Contents) /\ frag' \in Seq(Contents) /\ Len(frag') <= 1
      /\ ToSet(lines') \subseteq 0 .. next - 1
      /\ ToSet(frag') \subseteq 0 .. next - 1
      /\ abandoned' \subseteq 1 .. next - 1
  <2>1. CASE UNCHANGED <<fileVars, abandoned>>
    BY <2>1 DEF fileVars, FileInv, JournalTypeOK, Contents
  <2>2. Recovered \in Seq(Contents) /\ ToSet(Recovered) \subseteq 0 .. next - 1
    BY RecoveredType, AllLinesType
  <2>3. CASE lines' = Recovered /\ frag' = <<>> /\ UNCHANGED abandoned
    BY <2>2, <2>3, EmptySeq, EmptySet DEF FileInv, JournalTypeOK
  <2>4. CASE QuarantineStops
    <3>1. PICK n \in 0 .. Len(Recovered) :
              /\ lines' = SubSeq(Recovered, 1, n)
              /\ \/ frag' = <<>>
                 \/ n < Len(Recovered) /\ frag' \in {<<Malformed>>, <<Recovered[n + 1]>>}
      BY <2>4 DEF QuarantineStops
    <3>2. lines' \in Seq(Contents) /\ ToSet(lines') \subseteq ToSet(Recovered)
      BY <2>2, <3>1, PrefixSet
    <3>3. /\ frag' \in Seq(Contents) /\ Len(frag') <= 1
          /\ ToSet(frag') \subseteq ToSet(Recovered) \cup {Malformed}
      BY <2>2, <3>1, PieceSet DEF Contents
    <3>4. abandoned' \subseteq 1 .. next - 1
      <4>1. ToSet(AllLines) \subseteq 0 .. next - 1 /\ next \in Nat
        BY AllLinesType DEF FileInv, JournalTypeOK
      <4>2. ToSet(AllLines) \ {Malformed} \subseteq 1 .. next - 1
        BY <4>1 DEF Malformed
      <4> QED
        BY <2>4, <4>2 DEF QuarantineStops, FileInv, JournalTypeOK
    <3>5. Malformed \in 0 .. next - 1
      BY DEF FileInv, JournalTypeOK, Malformed
    <3> QED
      BY <2>2, <3>2, <3>3, <3>4, <3>5
  <2> QED
    BY <2>1, <2>3, <2>4 DEF StartStops
<1>2. ToSet(lines' \o frag') = ToSet(lines') \cup ToSet(frag')
  BY <1>1, ConcatSet
<1> QED
  BY <1>1, <1>2

LEMMA FileInvStep ==
    ASSUME FileInv, [Next]_vars
    PROVE  FileInv'
<1>1. CASE AppendSucceeds
  BY <1>1, AppendReturnsTrueType DEF AppendSucceeds, FileInv, JournalTypeOK
<1>2. CASE AcknowledgeRecovery
  BY <1>2, AppendReturnsTrueType DEF AcknowledgeRecovery
<1>3. CASE AppendFails
  <2>1. BeginAppend
    BY <1>3 DEF AppendFails
  <2>2. /\ lines' \in Seq(Contents) /\ frag' \in Seq(Contents) /\ Len(frag') <= 1
        /\ ToSet(lines') \subseteq 0 .. next' - 1
        /\ ToSet(frag') \subseteq 0 .. next' - 1
    <3>1. CASE UNCHANGED fileVars
      BY <2>1, <3>1, BeginAppendType DEF fileVars, FileInv, JournalTypeOK, Contents
    <3>2. CASE CutShort
      BY <2>1, <3>2, CutShortType
    <3> QED BY <1>3, <3>1, <3>2 DEF AppendFails
  <2>3. /\ returned' \subseteq 1 .. next' - 1 /\ memory' \subseteq 1 .. next' - 1
        /\ abandoned' \subseteq 1 .. next' - 1
    BY <1>3, <2>1, BeginAppendType DEF AppendFails, FileInv, JournalTypeOK
  <2>4. up' \in BOOLEAN /\ degraded' \in BOOLEAN /\ available' \in BOOLEAN
    BY <1>3 DEF AppendFails, FileInv, JournalTypeOK
  <2> QED
    BY <2>1, <2>2, <2>3, <2>4, BeginAppendType DEF FileInv, JournalTypeOK, Contents
<1>4. CASE Dies
  <2>1. CASE UNCHANGED <<fileVars, next>>
    BY <1>4, <2>1 DEF Dies, fileVars, FileInv, JournalTypeOK
  <2>2. CASE BeginAppend /\ CutShort
    <3>1. /\ returned' \subseteq 1 .. next' - 1 /\ memory' \subseteq 1 .. next' - 1
          /\ abandoned' \subseteq 1 .. next' - 1
      BY <1>4, <2>2, BeginAppendType DEF Dies, FileInv, JournalTypeOK
    <3>2. up' \in BOOLEAN /\ degraded' \in BOOLEAN /\ available' \in BOOLEAN
      BY <1>4 DEF Dies, FileInv, JournalTypeOK
    <3> QED
      BY <2>2, <3>1, <3>2, CutShortType, BeginAppendType
      DEF FileInv, JournalTypeOK, Contents
  <2> QED BY <1>4, <2>1, <2>2 DEF Dies
<1>5. CASE Starts
  <2>1. Recovered \in Seq(Contents) /\ ToSet(Recovered) \subseteq 0 .. next - 1
    BY RecoveredType, AllLinesType
  <2>2. memory' \subseteq 1 .. next - 1
    BY <1>5, <2>1, ReplayedType DEF Starts
  <2>3. frag' \in Seq(Contents) /\ Len(frag') <= 1 /\ ToSet(frag') = {}
    BY <1>5, EmptySeq, EmptySet DEF Starts
  <2>4. up' \in BOOLEAN /\ degraded' \in BOOLEAN /\ available' \in BOOLEAN
    BY <1>5 DEF Starts, ChainResumes, TornTail
  <2>5. lines' = Recovered /\ next' = next /\ returned' = returned /\ abandoned' = abandoned
    BY <1>5 DEF Starts
  <2>6. /\ next' \in 1 .. MaxRecords + 1 /\ returned' \subseteq 1 .. next' - 1
        /\ abandoned' \subseteq 1 .. next' - 1
    BY <2>5 DEF FileInv, JournalTypeOK
  <2> QED
    BY <2>1, <2>2, <2>3, <2>4, <2>5, <2>6 DEF FileInv, JournalTypeOK, Contents
<1>6. CASE DiesStarting \/ StartsUnavailable
  <2>1. StartStops /\ UNCHANGED <<next, returned>>
    BY <1>6 DEF DiesStarting, StartsUnavailable
  <2>2. /\ lines' \in Seq(Contents) /\ frag' \in Seq(Contents) /\ Len(frag') <= 1
        /\ ToSet(lines') \subseteq 0 .. next - 1
        /\ ToSet(frag') \subseteq 0 .. next - 1
        /\ ToSet(lines' \o frag') \subseteq 0 .. next - 1
        /\ abandoned' \subseteq 1 .. next - 1
    BY <2>1, StartStopsType
  <2>3. up' \in BOOLEAN /\ degraded' \in BOOLEAN /\ available' \in BOOLEAN
    <3>1. CASE DiesStarting
      BY <3>1 DEF DiesStarting, FileInv, JournalTypeOK
    <3>2. CASE StartsUnavailable
      BY <3>2, Zenon DEF StartsUnavailable
    <3> QED
      BY <1>6, <3>1, <3>2
  <2>4. memory' \subseteq 1 .. next - 1
    <3>1. CASE DiesStarting
      BY <3>1 DEF DiesStarting, FileInv, JournalTypeOK
    <3>2. CASE StartsUnavailable
      BY <3>2, <2>2, ReplayedType DEF StartsUnavailable
    <3> QED
      BY <1>6, <3>1, <3>2
  <2> QED
    BY <2>1, <2>2, <2>3, <2>4 DEF FileInv, JournalTypeOK, Contents
<1>7. CASE UNCHANGED vars
  BY <1>7 DEF vars, FileInv, JournalTypeOK
<1> QED
  BY <1>1, <1>2, <1>3, <1>4, <1>5, <1>6, <1>7 DEF Next

LEMMA FileInvInit == Init => FileInv
<1> SUFFICES ASSUME Init PROVE FileInv
  OBVIOUS
<1>1. up \in BOOLEAN /\ degraded \in BOOLEAN /\ available \in BOOLEAN
  BY Zenon DEF Init
<1>2. /\ lines = <<>> /\ frag = <<>> /\ abandoned = {}
      /\ next = 1 /\ returned = {} /\ memory = {}
  BY DEF Init
<1>3. /\ lines \in Seq(Contents) /\ frag \in Seq(Contents) /\ Len(frag) <= 1
      /\ ToSet(lines) = {} /\ ToSet(frag) = {}
  BY <1>2, EmptySeq, EmptySet
<1> QED
  BY <1>1, <1>2, <1>3 DEF FileInv, JournalTypeOK, Contents

\* Every reachable state is well typed (JournalTypeOK), whether or not a failed
\* journal becomes writable again.
THEOREM JournalTypeCorrect == Spec => []JournalTypeOK
<1>1. FileInv /\ [Next]_vars => FileInv'
  BY FileInvStep
<1>2. FileInv => JournalTypeOK
  BY DEF FileInv
<1> QED
  BY FileInvInit, <1>1, <1>2, PTL DEF Spec

-------------------------------------------------------------------------------
(***************************************************************************)
(* No silent loss.  While a failed journal stays unwritable no append can  *)
(* share a line with a fragment, so a malformed line is never followed by  *)
(* a newline, every recovery, even one that stops, leaves a file whose     *)
(* lines a replay can read, and what was returned is among them or in an   *)
(* original that was abandoned.                                            *)
(***************************************************************************)
LossInv ==
    /\ Malformed \notin ToSet(lines)
    /\ returned \subseteq ToSet(lines) \cup abandoned
    /\ up /\ available => frag = <<>> /\ returned \subseteq memory \cup abandoned

\* A write that reaches the file meets no fragment there.
LEMMA CleanWrite ==
    ASSUME ~WritesResume, FileInv, LossInv, BeginAppend, Writable
    PROVE  /\ Written(next) = Append(lines, next)
           /\ ToSet(Written(next)) = ToSet(lines) \cup {next}
           /\ Malformed \notin ToSet(Written(next))
<1>1. Written(next) = Append(lines, next)
  BY DEF BeginAppend, Writable, LossInv, Written
<1>2. ToSet(Written(next)) = ToSet(lines) \cup {next}
  BY <1>1, BeginAppendType, AppendSet DEF FileInv, JournalTypeOK
<1>3. next # Malformed
  BY BeginAppendType DEF Records, Malformed
<1> QED
  BY <1>1, <1>2, <1>3 DEF LossInv

\* A write cut short adds its own record to the lines, or nothing.
LEMMA CutShortKeeps ==
    ASSUME ~WritesResume, FileInv, LossInv, BeginAppend, CutShort
    PROVE  Malformed \notin ToSet(lines') /\ ToSet(lines) \subseteq ToSet(lines')
BY CleanWrite DEF CutShort, LossInv

\* Recovery cuts off at most the fragment.
LEMMA RecoveredKeeps ==
    ASSUME FileInv, LossInv
    PROVE  Malformed \notin ToSet(Recovered) /\ ToSet(lines) \subseteq ToSet(Recovered)
<1>1. lines \in Seq(Contents) /\ frag \in Seq(Contents) /\ Len(frag) <= 1
  BY DEF FileInv, JournalTypeOK, Contents
<1>2. CASE frag = <<>>
  <2>1. AllLines = lines
    BY <1>1, <1>2, ConcatEmptySeq DEF AllLines
  <2>2. ~TornTail
    BY <1>1, <2>1, LastInSet DEF TornTail, LossInv
  <2> QED
    BY <2>1, <2>2 DEF Recovered, LossInv
<1>3. ASSUME NEW e \in Contents, frag = <<e>>
      PROVE  Malformed \notin ToSet(Recovered) /\ ToSet(lines) \subseteq ToSet(Recovered)
  <2>1. AllLines = Append(lines, e)
    BY <1>1, <1>3, AppendIsConcat DEF AllLines
  <2>2. CASE e = Malformed
    <3>1. TornTail
      BY <1>1, <2>1, <2>2, FrontOfAppend, AppendProperties DEF TornTail
    <3>2. Recovered = lines
      BY <1>1, <2>1, <3>1, FrontOfAppend DEF Recovered
    <3> QED
      BY <3>2 DEF LossInv
  <2>3. CASE e # Malformed
    <3>1. ~TornTail
      BY <1>1, <2>1, <2>3, FrontOfAppend DEF TornTail
    <3>2. Recovered = Append(lines, e)
      BY <2>1, <3>1 DEF Recovered
    <3> QED
      BY <1>1, <2>3, <3>2, AppendSet DEF LossInv
  <2> QED BY <2>2, <2>3
<1> QED
  BY <1>1, <1>2, <1>3, ShortSeq

\* A start that stops leaves readable lines, and what it took out of the file is in
\* the original that it abandoned.
LEMMA StartStopsKeeps ==
    ASSUME FileInv, LossInv, StartStops
    PROVE  /\ Malformed \notin ToSet(lines')
           /\ returned \subseteq ToSet(lines') \cup abandoned'
<1>1. Malformed \notin ToSet(Recovered) /\ ToSet(lines) \subseteq ToSet(Recovered)
  BY RecoveredKeeps
<1>2. Recovered \in Seq(Contents) /\ ToSet(Recovered) \subseteq ToSet(AllLines)
  BY RecoveredType
<1>3. CASE QuarantineStops
  <2>1. PICK n \in 0 .. Len(Recovered) : lines' = SubSeq(Recovered, 1, n)
    BY <1>3 DEF QuarantineStops
  <2>2. ToSet(lines') \subseteq ToSet(Recovered)
    BY <1>2, <2>1, PrefixSet
  <2>3. abandoned' = abandoned \cup (ToSet(AllLines) \ {Malformed})
    BY <1>3 DEF QuarantineStops
  <2> QED
    BY <1>1, <1>2, <2>2, <2>3 DEF LossInv
<1> QED
  BY <1>1, <1>3 DEF StartStops, fileVars, LossInv

LEMMA LossInvStep ==
    ASSUME ~WritesResume, FileInv, LossInv, [Next]_vars
    PROVE  LossInv'
<1>1. CASE AppendReturnsTrue
  <2>1. BeginAppend /\ Writable
    BY <1>1 DEF AppendReturnsTrue
  <2>2. up /\ available
    BY <2>1 DEF BeginAppend, Writable
  <2> QED
    BY <1>1, <2>1, <2>2, CleanWrite DEF AppendReturnsTrue, LossInv
<1>2. CASE AppendFails
  <2>1. Malformed \notin ToSet(lines') /\ ToSet(lines) \subseteq ToSet(lines')
    BY <1>2, CutShortKeeps DEF AppendFails, fileVars, LossInv
  <2> QED
    BY <1>2, <2>1 DEF AppendFails, LossInv
<1>3. CASE Dies
  <2>1. Malformed \notin ToSet(lines') /\ ToSet(lines) \subseteq ToSet(lines')
    BY <1>3, CutShortKeeps DEF Dies, fileVars, LossInv
  <2> QED
    BY <1>3, <2>1 DEF Dies, LossInv
<1>4. CASE Starts
  <2>1. Replayed(Recovered) = ToSet(Recovered)
    BY RecoveredKeeps DEF Replayed
  <2> QED
    BY <1>4, <2>1, RecoveredKeeps DEF Starts, LossInv
<1>5. CASE DiesStarting \/ StartsUnavailable
  <2>1. /\ Malformed \notin ToSet(lines')
        /\ returned \subseteq ToSet(lines') \cup abandoned'
    BY <1>5, StartStopsKeeps DEF DiesStarting, StartsUnavailable
  <2>2. returned' = returned /\ ~(up' /\ available')
    <3>1. CASE DiesStarting
      BY <3>1 DEF DiesStarting
    <3>2. CASE StartsUnavailable
      BY <3>2 DEF StartsUnavailable
    <3> QED
      BY <1>5, <3>1, <3>2
  <2> QED
    BY <2>1, <2>2 DEF LossInv
<1>6. CASE UNCHANGED vars
  BY <1>6 DEF vars, LossInv
<1> QED
  BY <1>1, <1>2, <1>3, <1>4, <1>5, <1>6 DEF Next, AppendSucceeds, AcknowledgeRecovery

\* Whatever is lost silently, a quarantine that was cut short has left in the file
\* it moved away (OnlyACutQuarantineLoses): if a failed journal stays unwritable
\* under its process, this holds through any number of torn writes, failed fsyncs,
\* crashes, recoveries, and recoveries that stop anywhere.
THEOREM OnlyAbandonedIsLost ==
    ASSUME ~WritesResume
    PROVE  Spec => []OnlyACutQuarantineLoses
<1>1. Init => LossInv
  BY EmptySet DEF Init, LossInv
<1>2. FileInv /\ [Next]_vars => FileInv'
  BY FileInvStep
<1>3. FileInv /\ LossInv /\ [Next]_vars => LossInv'
  BY LossInvStep
<1>4. LossInv => OnlyACutQuarantineLoses
  BY DEF LossInv, OnlyACutQuarantineLoses, NewRiskAllowed
<1> QED
  BY FileInvInit, <1>1, <1>2, <1>3, <1>4, PTL DEF Spec

\* No silent amnesia (NoSilentLoss, journal.py:184) under two hypotheses that the
\* code does not secure: a failed journal stays unwritable under its process, and
\* no crash or error stops a quarantine before it has rewritten the file.  Each of
\* them is needed.
THEOREM NothingLostSilently ==
    ASSUME ~WritesResume, ~QuarantineMayStop
    PROVE  Spec => []NoSilentLoss
<1>1. Init => abandoned = {}
  BY DEF Init
<1>2. abandoned = {} /\ [Next]_vars => (abandoned = {})'
  BY DEF Next, AppendSucceeds, AcknowledgeRecovery, AppendReturnsTrue, AppendFails, Dies,
     Starts, DiesStarting, StartsUnavailable, StartStops, QuarantineStops, vars
<1>3. abandoned = {} /\ OnlyACutQuarantineLoses => NoSilentLoss
  BY DEF OnlyACutQuarantineLoses, NoSilentLoss
<1> QED
  BY OnlyAbandonedIsLost, <1>1, <1>2, <1>3, PTL DEF Spec

-------------------------------------------------------------------------------
(* The file implements DurableLog, while a failed journal stays unwritable; *)
(* a DurableLog whose recoveries may stop, if the file's may.               *)

\* The process whose journal is available remembers exactly the lines of the file.
KeptInv == FileInv /\ LossInv /\ (up /\ available => memory = ToSet(lines))

\* Nothing is left behind the last newline of an available journal.
LEMMA KeptWhenOpen ==
    ASSUME LossInv, up, available
    PROVE  Kept = ToSet(lines)
BY EmptySet DEF LossInv, Kept

\* A record is written whole.
LEMMA WrittenKept ==
    ASSUME ~WritesResume, FileInv, LossInv, BeginAppend, Writable,
           lines' = Written(next), frag' = <<>>
    PROVE  /\ Kept' = Kept \cup {next} /\ ToSet(lines') = ToSet(lines) \cup {next}
           /\ next \in Records /\ up /\ available
<1>1. up /\ available /\ next \in Records
  BY BeginAppendType DEF BeginAppend, Writable
<1>2. ToSet(lines') = ToSet(lines) \cup {next} /\ Malformed \notin ToSet(lines')
  BY CleanWrite
<1>3. Kept' = ToSet(lines')
  BY <1>2, EmptySet DEF Kept
<1> QED
  BY <1>1, <1>2, <1>3, KeptWhenOpen

\* A write cut short keeps its record, or does not.
LEMMA CutShortKept ==
    ASSUME ~WritesResume, FileInv, LossInv, BeginAppend, CutShort
    PROVE  Log!MayKeep /\ up /\ available
<1>1. up /\ available /\ frag = <<>> /\ next \in Records /\ next # Malformed
  BY BeginAppendType DEF BeginAppend, CutShort, Writable, LossInv, Records, Malformed
<1>2. CASE lines' = Written(next) /\ frag' = <<>>
  BY <1>1, <1>2, WrittenKept DEF CutShort, Log!MayKeep
<1>3. CASE frag' \in Fragments /\ UNCHANGED lines
  <2>1. frag' = <<Malformed>> \/ frag' = <<next>>
    BY <1>1, <1>3 DEF Fragments
  <2>2. CASE frag' = <<Malformed>>
    <3>1. ToSet(frag') = {Malformed}
      BY <2>2, SingletonSet
    <3>2. Kept' = Kept
      BY <1>1, <1>3, <3>1, KeptWhenOpen DEF Kept, LossInv
    <3> QED
      BY <1>1, <3>2 DEF Log!MayKeep
  <2>3. CASE frag' = <<next>>
    <3>1. ToSet(frag') = {next}
      BY <2>3, SingletonSet
    <3>2. Kept' = Kept \cup {next}
      BY <1>1, <1>3, <3>1, KeptWhenOpen DEF Kept, LossInv
    <3> QED
      BY <1>1, <3>2 DEF Log!MayKeep
  <2> QED
    BY <2>1, <2>2, <2>3
<1> QED
  BY <1>2, <1>3 DEF CutShort

\* A recovery keeps what a replay can read, and only cuts off what it cannot.
LEMMA RecoveredKept ==
    ASSUME FileInv, LossInv
    PROVE  ToSet(Recovered) = Kept /\ (~TornTail => ToSet(AllLines) = Kept)
<1>1. lines \in Seq(Contents) /\ frag \in Seq(Contents) /\ Len(frag) <= 1
  BY DEF FileInv, JournalTypeOK, Contents
<1>2. CASE frag = <<>>
  <2>1. AllLines = lines /\ Kept = ToSet(lines)
    BY <1>1, <1>2, ConcatEmptySeq, EmptySet DEF AllLines, Kept, LossInv
  <2>2. ~TornTail
    BY <1>1, <2>1, LastInSet DEF TornTail, LossInv
  <2> QED
    BY <2>1, <2>2 DEF Recovered
<1>3. ASSUME NEW e \in Contents, frag = <<e>>
      PROVE  ToSet(Recovered) = Kept /\ (~TornTail => ToSet(AllLines) = Kept)
  <2>1. AllLines = Append(lines, e) /\ Kept = (ToSet(lines) \cup {e}) \ {Malformed}
    BY <1>1, <1>3, AppendIsConcat, SingletonSet DEF AllLines, Kept
  <2>2. CASE e = Malformed
    <3>1. TornTail
      BY <1>1, <2>1, <2>2, FrontOfAppend, AppendProperties DEF TornTail
    <3>2. Recovered = lines
      BY <1>1, <2>1, <3>1, FrontOfAppend DEF Recovered
    <3> QED
      BY <2>1, <2>2, <3>1, <3>2 DEF LossInv
  <2>3. CASE e # Malformed
    <3>1. ~TornTail
      BY <1>1, <2>1, <2>3, FrontOfAppend DEF TornTail
    <3>2. Recovered = Append(lines, e) /\ ToSet(AllLines) = ToSet(lines) \cup {e}
      BY <1>1, <2>1, <3>1, AppendSet DEF Recovered
    <3> QED
      BY <2>1, <2>3, <3>1, <3>2 DEF LossInv
  <2> QED
    BY <2>2, <2>3
<1> QED
  BY <1>1, <1>2, <1>3, ShortSeq

LogStep == [Log!Next]_(Log!logVars)

LEMMA AppendIsStep ==
    ASSUME ~WritesResume, KeptInv, AppendSucceeds \/ AcknowledgeRecovery
    PROVE  LogStep /\ (up /\ available => memory = ToSet(lines))'
<1>1. /\ BeginAppend /\ Writable /\ lines' = Written(next) /\ frag' = <<>>
      /\ memory' = memory \cup {next} /\ UNCHANGED <<abandoned, up, available>>
      /\ degraded' = degraded \/ degraded' = FALSE
  BY DEF AppendSucceeds, AcknowledgeRecovery, AppendReturnsTrue
<1>2. /\ Kept' = Kept \cup {next} /\ ToSet(lines') = ToSet(lines) \cup {next}
      /\ next \in Records /\ up /\ available
  BY <1>1, WrittenKept DEF KeptInv
<1>3. memory' = ToSet(lines')
  BY <1>1, <1>2 DEF KeptInv
<1>4. Mode \in {"open", "degraded"} /\ Mode' \in {Mode, "open"}
  BY <1>1, <1>2 DEF Mode
<1>5. Log!AppendKept(next)
  BY <1>1, <1>2, <1>4 DEF Log!AppendKept
<1> QED
  BY <1>2, <1>3, <1>5 DEF LogStep, Log!Next

LEMMA AppendFailsIsStep ==
    ASSUME ~WritesResume, KeptInv, AppendFails
    PROVE  LogStep /\ (up /\ available => memory = ToSet(lines))'
<1>1. /\ up /\ available' = FALSE /\ up' = up /\ memory' = memory /\ degraded' = degraded
      /\ abandoned' = abandoned /\ BeginAppend
  BY DEF AppendFails, BeginAppend
<1>2. CASE available
  <2>1. Log!MayKeep
    <3>1. CASE UNCHANGED fileVars
      BY <3>1 DEF fileVars, Kept, Log!MayKeep
    <3>2. CASE CutShort
      BY <1>1, <3>2, CutShortKept DEF KeptInv
    <3> QED
      BY <3>1, <3>2 DEF AppendFails
  <2>2. Mode \in {"open", "degraded"} /\ Mode' = "latched"
    BY <1>1, <1>2 DEF Mode
  <2>3. Log!AppendFailed
    BY <1>1, <2>1, <2>2 DEF Log!AppendFailed
  <2> QED
    BY <1>1, <2>3 DEF LogStep, Log!Next
<1>3. CASE ~available
  <2>1. ~CutShort
    BY <1>3 DEF CutShort, Writable
  <2>2. Kept' = Kept
    BY <2>1 DEF AppendFails, fileVars, Kept
  <2>3. Mode' = Mode
    BY <1>1, <1>3 DEF Mode
  <2> QED
    BY <1>1, <2>2, <2>3 DEF LogStep, Log!logVars
<1> QED
  BY <1>2, <1>3

LEMMA DiesIsStep ==
    ASSUME ~WritesResume, KeptInv, Dies
    PROVE  LogStep /\ (up /\ available => memory = ToSet(lines))'
<1>1. up /\ ~up' /\ Mode # "down" /\ Mode' = "down" /\ abandoned' = abandoned
  BY DEF Dies, Mode
<1>2. Kept' = Kept \/ (Mode # "latched" /\ Log!MayKeep)
  <2>1. CASE UNCHANGED fileVars
    BY <2>1 DEF fileVars, Kept
  <2>2. CASE BeginAppend /\ CutShort
    <3>1. Log!MayKeep /\ available
      BY <2>2, CutShortKept DEF KeptInv
    <3>2. Mode # "latched"
      BY <1>1, <3>1 DEF Mode
    <3> QED
      BY <3>1, <3>2
  <2> QED
    BY <2>1, <2>2 DEF Dies
<1>3. Log!Crash
  BY <1>1, <1>2 DEF Log!Crash
<1> QED
  BY <1>1, <1>3 DEF LogStep, Log!Next

LEMMA StartsIsStep ==
    ASSUME KeptInv, Starts
    PROVE  LogStep /\ (up /\ available => memory = ToSet(lines))'
<1>1. ToSet(Recovered) = Kept /\ Malformed \notin ToSet(Recovered) /\ Malformed \notin Kept
  BY RecoveredKept, RecoveredKeeps DEF KeptInv, Kept
<1>2. /\ ~up /\ lines' = Recovered /\ frag' = <<>> /\ available' = TRUE
      /\ up' = ChainResumes(Recovered) /\ abandoned' = abandoned
      /\ memory' = IF up' THEN Replayed(Recovered) ELSE {}
  BY DEF Starts
<1>3. Kept' = Kept
  BY <1>1, <1>2, EmptySet DEF Kept
<1>4. up'
  <2>1. Recovered \in Seq(Contents)
    BY RecoveredType DEF KeptInv
  <2>2. Recovered = <<>> \/ Last(Recovered) \in ToSet(Recovered)
    BY <2>1, LastInSet
  <2> QED
    BY <1>1, <1>2, <2>2 DEF ChainResumes
<1>5. memory' = Kept /\ memory' = ToSet(lines')
  BY <1>1, <1>2, <1>4 DEF Replayed
<1>6. Mode = "down" /\ Mode' \in {"open", "degraded"}
  BY <1>2, <1>4 DEF Mode
<1>7. Log!Start
  BY <1>2, <1>3, <1>4, <1>5, <1>6 DEF Log!Start
<1> QED
  BY <1>5, <1>7 DEF LogStep, Log!Next

\* A quarantine that stops leaves some of the records, and has set all of them aside.
LEMMA QuarantineStopsKept ==
    ASSUME KeptInv, QuarantineStops
    PROVE  Kept' \subseteq Kept /\ abandoned' = abandoned \cup Kept
<1>1. Recovered \in Seq(Contents) /\ ToSet(Recovered) = Kept
  BY RecoveredType, RecoveredKept DEF KeptInv
<1>2. PICK n \in 0 .. Len(Recovered) :
          /\ lines' = SubSeq(Recovered, 1, n)
          /\ \/ frag' = <<>>
             \/ n < Len(Recovered) /\ frag' \in {<<Malformed>>, <<Recovered[n + 1]>>}
  BY DEF QuarantineStops
<1>3. ToSet(lines') \subseteq Kept
  BY <1>1, <1>2, PrefixSet
<1>4. ToSet(frag') \subseteq Kept \cup {Malformed}
  BY <1>1, <1>2, PieceSet DEF Contents
<1>5. ToSet(AllLines) = ToSet(lines) \cup ToSet(frag)
  BY ConcatSet DEF AllLines, KeptInv, FileInv, JournalTypeOK
<1> QED
  BY <1>3, <1>4, <1>5 DEF Kept, QuarantineStops

LEMMA StartFailsIsStep ==
    ASSUME KeptInv, DiesStarting \/ StartsUnavailable
    PROVE  LogStep /\ (up /\ available => memory = ToSet(lines))'
<1>1. /\ ~up /\ StartStops
      /\ \/ ~up'
         \/ /\ up' = TRUE /\ available' = FALSE
            /\ memory' \in {{}, Replayed(lines' \o frag')}
  BY DEF DiesStarting, StartsUnavailable
<1>2. ToSet(lines' \o frag') = ToSet(lines') \cup ToSet(frag')
  BY <1>1, StartStopsType, ConcatSet DEF KeptInv
<1>3. Replayed(lines' \o frag') \in {{}, Kept'}
  BY <1>2 DEF Replayed, Kept
<1>4. Log!FailedStart
  <2>1. CASE ~up'
    BY <1>1, <2>1 DEF Log!FailedStart, Mode
  <2>2. CASE up' = TRUE /\ available' = FALSE /\ memory' \in {{}, Replayed(lines' \o frag')}
    BY <1>1, <1>3, <2>2 DEF Log!FailedStart, Mode
  <2> QED
    BY <1>1, <2>1, <2>2
<1>5. CASE QuarantineStops
  <2>1. Log!RecoveryStops
    BY <1>4, <1>5, QuarantineStopsKept DEF Log!RecoveryStops, QuarantineStops
  <2> QED
    BY <1>1, <2>1 DEF LogStep, Log!Next
<1>6. CASE UNCHANGED abandoned /\ (UNCHANGED fileVars \/ (lines' = Recovered /\ frag' = <<>>))
  <2>1. ToSet(Recovered) = Kept /\ Malformed \notin Kept
    BY RecoveredKept DEF KeptInv, Kept
  <2>2. Kept' = Kept
    BY <1>6, <2>1, EmptySet DEF fileVars, Kept
  <2>3. Log!StartFails
    BY <1>4, <1>6, <2>2 DEF Log!StartFails
  <2> QED
    BY <1>1, <2>3 DEF LogStep, Log!Next
<1> QED
  BY <1>1, <1>5, <1>6 DEF StartStops

LEMMA KeptStep ==
    ASSUME ~WritesResume, KeptInv, [Next]_vars
    PROVE  KeptInv' /\ LogStep
<1>1. FileInv' /\ LossInv'
  BY FileInvStep, LossInvStep DEF KeptInv
<1>2. LogStep /\ (up /\ available => memory = ToSet(lines))'
  <2>1. CASE UNCHANGED vars
    <3>1. UNCHANGED <<Kept, abandoned, Mode, up, available, memory, lines>>
      BY <2>1 DEF vars, Kept, Mode
    <3> QED
      BY <3>1 DEF KeptInv, LogStep, Log!logVars
  <2> QED
    BY <2>1, AppendIsStep, AppendFailsIsStep, DiesIsStep, StartsIsStep,
       StartFailsIsStep DEF Next
<1> QED
  BY <1>1, <1>2 DEF KeptInv

LEMMA KeptInit == Init => KeptInv
BY FileInvInit, EmptySet DEF Init, KeptInv, LossInv

\* What the file gives the order manager is a DurableLog, if a failed journal stays
\* unwritable under its process: an append that fails always closes the journal, and
\* no write that is cut short, no crash and no recovery takes away what a replay
\* could read; a recovery that stops may, if it may stop at all, and has set it aside.
THEOREM FileImplementsDurableLog ==
    ASSUME ~WritesResume
    PROVE  Spec => ImplementsDurableLog
<1>1. Init => Log!Init
  BY EmptySet DEF Init, Log!Init, Kept, Mode
<1>2. KeptInv /\ [Next]_vars => KeptInv' /\ [Log!Next]_(Log!logVars)
  BY KeptStep DEF LogStep
<1> QED
  BY KeptInit, <1>1, <1>2, PTL DEF Spec, ImplementsDurableLog, Log!Spec

\* Under the same assumption a process whose journal is available knows every record that
\* is in the file, those of its predecessors' failed appends included, and no other.
THEOREM MemoryIsTheFile ==
    ASSUME ~WritesResume
    PROVE  Spec => []Log!KnowsWhatIsKept
<1>1. KeptInv => Log!KnowsWhatIsKept
  BY KeptWhenOpen DEF KeptInv, Log!KnowsWhatIsKept, Mode
<1>2. KeptInv /\ [Next]_vars => KeptInv'
  BY KeptStep
<1> QED
  BY KeptInit, <1>1, <1>2, PTL DEF Spec

\* No record that a restart could read back is ever destroyed: it stays in the file, or
\* in an original that a quarantine moved away and did not copy to its end.
THEOREM RecordsAreNotDestroyed ==
    ASSUME ~WritesResume
    PROVE  Spec => Log!NothingIsDestroyed
<1>1. LogStep => [Kept \cup abandoned \subseteq Kept' \cup abandoned']_(Log!logVars)
  BY DEF LogStep, Log!Next, Log!AppendKept, Log!AppendFailed, Log!MayKeep, Log!Crash, Log!Start,
     Log!StartFails, Log!RecoveryStops
<1>2. KeptInv /\ [Next]_vars
      => KeptInv' /\ [Kept \cup abandoned \subseteq Kept' \cup abandoned']_(Log!logVars)
  BY <1>1, KeptStep
<1> QED
  BY KeptInit, <1>2, PTL DEF Spec, Log!NothingIsDestroyed

\* It stays in the file, if moreover no crash or error stops a quarantine.
THEOREM RecordsStayKept ==
    ASSUME ~WritesResume, ~QuarantineMayStop
    PROVE  Spec => Log!NothingKeptIsLost
<1>1. LogStep => [Kept \subseteq Kept']_(Log!logVars)
  BY DEF LogStep, Log!Next, Log!AppendKept, Log!AppendFailed, Log!MayKeep, Log!Crash, Log!Start,
     Log!StartFails, Log!RecoveryStops
<1>2. KeptInv /\ [Next]_vars => KeptInv' /\ [Kept \subseteq Kept']_(Log!logVars)
  BY <1>1, KeptStep
<1> QED
  BY KeptInit, <1>2, PTL DEF Spec, Log!NothingKeptIsLost
==============================================================================
