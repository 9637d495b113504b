------------------------------ MODULE ToolsProofs ------------------------------
(***************************************************************************)
(* Theorems about Tools, for files, buffers, balances, amounts, limits and *)
(* addresses of any size.                                                  *)
(*                                                                         *)
(* A scan reads a file that it may lengthen itself, so it is not enough    *)
(* that it reads all there is when it ends: its invariant also says that   *)
(* its own file stays ahead of it.                                         *)
(*                                                                         *)
(* The conversions need the powers of ten, a recursive function: that it   *)
(* is what its definition says, and what it computes, is shown with least  *)
(* counterexamples, as a set of numbers has a least one.                   *)
(***************************************************************************)
EXTENDS Tools, WellFoundedInduction, SequenceTheorems, TLAPS

-------------------------------------------------------------------------------
(* Scans.                                                                  *)

\* A file: the lines that end in a newline, and what follows the last.
File == [lines : Seq(Lines), rest : Lines]

\* The types the arguments below need.
ScanTypes ==
  /\ start \in File /\ file \in File /\ seen \in Seq(Lines)
  /\ own \in BOOLEAN /\ (own => program = "reval") /\ fetched \in Nat

\* Only its own log changes a file, and only after the first line was read.
Untouched == ~own \/ seen = <<>> => file = start

\* While it reads, the lines it has used are those the buffer has taken from the
\* beginning of the file.
InOrder ==
  /\ pc = "read" => err = "read"
  /\ pc = "ask" => seen # <<>>
  /\ err = "read" =>
       /\ Len(seen) <= fetched /\ fetched <= Len(file.lines)
       /\ ~own => \A i \in 1..Len(seen) : seen[i] = file.lines[i]

\* A scan of its own log has always logged a line more than it has read of them.
Ahead == (own /\ pc = "read" /\ seen # <<>>) => Len(seen) < Len(file.lines)

\* The last line was read: there is nothing to come.
AllSeen == /\ pc = "done" => err = "done"
           /\ err = "done" => seen = Append(start.lines, start.rest)

\* The inductive invariant of a scan.
SInv == ScanTypes /\ Untouched /\ InOrder /\ Ahead /\ AllSeen

-------------------------------------------------------------------------------
\* What a log entry does to the file: it keeps its lines where they are, it
\* changes the scan's own file only, and makes that one longer.
LEMMA LogGrows ==
  ASSUME ScanTypes, NEW entries \in Seq(Lines), entries # <<>>
  PROVE  /\ Logged(file, entries) \in File
         /\ ~own => Logged(file, entries) = file
         /\ Len(Logged(file, entries).lines) >= Len(file.lines)
         /\ own => Len(Logged(file, entries).lines) > Len(file.lines)
  <1> DEFINE first == IF file.rest = None THEN Head(entries) ELSE file.rest
             new == file.lines \o <<first>> \o Tail(entries)
  <1>1. /\ file \in File /\ file.lines \in Seq(Lines) /\ file.rest \in Lines
        /\ own \in BOOLEAN
    BY DEF ScanTypes, File
  <1>2. None \in Lines
    BY ToolsConstants
  <1>3. /\ Head(entries) \in Lines /\ Tail(entries) \in Seq(Lines)
        /\ Len(Tail(entries)) \in Nat
    BY HeadTailProperties, LenProperties
  <1>4. first \in Lines
    BY <1>1, <1>3
  <1>5. <<first>> \in Seq(Lines) /\ Len(<<first>>) = 1
    BY <1>4
  <1>6. /\ file.lines \o <<first>> \in Seq(Lines)
        /\ Len(file.lines \o <<first>>) = Len(file.lines) + 1
    BY <1>1, <1>5, ConcatProperties
  <1>7. new \in Seq(Lines) /\ Len(new) = Len(file.lines) + 1 + Len(Tail(entries))
    BY <1>3, <1>6, ConcatProperties
  <1> HIDE DEF new
  <1>8. Logged(file, entries) = IF ~own THEN file ELSE [lines |-> new, rest |-> None]
    BY DEF Logged, new
  <1>9. Len(file.lines) \in Nat
    BY <1>1, LenProperties
  <1> QED BY <1>1, <1>2, <1>3, <1>7, <1>8, <1>9 DEF File

-------------------------------------------------------------------------------
(* Each action keeps the invariant.                                        *)

\* A scan begins with nothing read.
LEMMA ScanInit == Init => SInv
  <1>1. [lines |-> <<>>, rest |-> None] \in File
    BY ToolsConstants DEF File
  <1>2. Files \subseteq File
    BY ToolsConstants DEF File
  <1> SUFFICES ASSUME Init PROVE SInv
    OBVIOUS
  <1>3. start \in File
    BY <1>1, <1>2 DEF Init
  <1>4. own \in BOOLEAN /\ (own => program = "reval")
    BY DEF Init
  <1>5. /\ file = start /\ fetched = 0 /\ seen = <<>> /\ err = "read"
        /\ pc \in {"convert", "read"}
    BY DEF Init
  <1>6. start.lines \in Seq(Lines) /\ Len(start.lines) \in Nat
    BY <1>3 DEF File
  <1> QED BY <1>3, <1>4, <1>5, <1>6 DEF SInv, ScanTypes, Untouched, InOrder, Ahead, AllSeen

\* A fetch takes lines the file has.
LEMMA FetchScan == SInv /\ Fetch => SInv'
  BY DEF Fetch, SInv, File, ScanTypes, Untouched, InOrder, Ahead, AllSeen

\* The next line of the buffer is used, once and in its place.
LEMMA ReadLineScan == SInv /\ ReadLine => SInv'
  <1> SUFFICES ASSUME SInv, ReadLine PROVE SInv'
    OBVIOUS
  <1> USE DEF SInv
  <1> DEFINE n == Len(seen)
             line == file.lines[n + 1]
  <1>1. /\ pc = "read" /\ err = "read" /\ n < fetched /\ fetched <= Len(file.lines)
        /\ seen' = Append(seen, line) /\ err' = "read" /\ pc' \in {"read", "panic", "ask"}
        /\ pc' = "read" => program = "operate_file"
        /\ UNCHANGED <<start, own, file, fetched>>
    BY DEF ReadLine, Takes, InOrder
  <1>2. /\ seen \in Seq(Lines) /\ file \in File /\ start \in File /\ fetched \in Nat
        /\ own \in BOOLEAN /\ (own => program # "operate_file")
        /\ file.lines \in Seq(Lines) /\ n \in Nat /\ Len(file.lines) \in Nat
    BY LenProperties DEF ScanTypes, File
  <1>3. line \in Lines
    BY <1>1, <1>2
  <1>4. /\ seen' \in Seq(Lines) /\ Len(seen') = n + 1 /\ seen' # <<>>
        /\ \A i \in 1..(n + 1) : seen'[i] = IF i <= n THEN seen[i] ELSE line
    BY <1>1, <1>2, <1>3
  <1>5. ~own => \A i \in 1..n : seen[i] = file.lines[i]
    BY <1>1 DEF InOrder
  <1>6. ~own => \A i \in 1..(n + 1) : seen'[i] = file.lines[i]
    <2> SUFFICES ASSUME ~own, NEW i \in 1..(n + 1) PROVE seen'[i] = file.lines[i]
      OBVIOUS
    <2>1. CASE i <= n
      <3>1. i \in 1..n
        BY <2>1, <1>2
      <3> QED BY <3>1, <2>1, <1>4, <1>5
    <2>2. CASE ~(i <= n)
      <3>1. i = n + 1
        BY <2>2, <1>2
      <3> QED BY <3>1, <2>2, <1>4
    <2> QED BY <2>1, <2>2
  <1> HIDE DEF n, line, SInv
  <1>7. ScanTypes'
    BY <1>1, <1>2, <1>4 DEF ScanTypes, ReadLine, Takes, SInv
  <1>8. Untouched'
    BY <1>1, <1>2, <1>4 DEF SInv, Untouched
  <1>9. InOrder'
    BY <1>1, <1>2, <1>4, <1>6 DEF InOrder
  <1>10. Ahead'
    BY <1>1, <1>2 DEF Ahead
  <1>11. AllSeen'
    BY <1>1 DEF AllSeen
  <1> QED BY <1>7, <1>8, <1>9, <1>10, <1>11 DEF SInv

\* What follows the last newline: the scan was not of its own log, or read no
\* line of it, so the file is what it was at first and all of it was used.
LEMMA ReadRestScan == SInv /\ ReadRest => SInv'
  <1> SUFFICES ASSUME SInv, ReadRest PROVE SInv'
    OBVIOUS
  <1>1. /\ pc = "read" /\ err = "read" /\ Len(seen) = Len(file.lines)
        /\ seen' = Append(seen, file.rest) /\ err' = "done" /\ pc' \in {"done", "panic", "ask"}
        /\ UNCHANGED <<program, start, own, file, fetched>>
    BY DEF ReadRest, Takes, SInv, InOrder
  <1>2. /\ seen \in Seq(Lines) /\ file \in File /\ start \in File /\ fetched \in Nat
        /\ own \in BOOLEAN /\ file.lines \in Seq(Lines) /\ file.rest \in Lines
    BY DEF ScanTypes, File, SInv
  <1>3. /\ seen' \in Seq(Lines) /\ seen' # <<>>
    BY <1>1, <1>2
  <1>4. ~own \/ seen = <<>>
    BY <1>1, <1>2 DEF SInv, Ahead
  <1>5. file = start
    BY <1>4 DEF SInv, Untouched
  <1>6. seen = file.lines
    <2>1. \A i \in 1..Len(seen) : seen[i] = file.lines[i]
      <3>1. CASE ~own
        BY <3>1, <1>1 DEF SInv, InOrder
      <3>2. CASE seen = <<>>
        BY <3>2
      <3> QED BY <3>1, <3>2, <1>4
    <2> QED BY <2>1, <1>1, <1>2, SeqEqual
  <1>7. ScanTypes'
    BY <1>1, <1>2, <1>3 DEF ScanTypes, SInv
  <1>8. Untouched'
    BY <1>1, <1>5 DEF Untouched
  <1>9. InOrder' /\ Ahead'
    BY <1>1 DEF InOrder, Ahead
  <1>10. AllSeen'
    BY <1>1, <1>5, <1>6 DEF AllSeen
  <1> QED BY <1>7, <1>8, <1>9, <1>10 DEF SInv

\* A read that fails ends the scan, without "File read ok!".
LEMMA ReadFailsScan == SInv /\ ReadFails => SInv'
  <1> SUFFICES ASSUME SInv, ReadFails PROVE SInv'
    OBVIOUS
  <1>1. PICK line \in Lines : Takes(line, "failed")
    BY DEF ReadFails
  <1>2. /\ seen' = Append(seen, line) /\ err' = "failed" /\ pc' \in {"failed", "panic", "ask"}
        /\ UNCHANGED <<program, start, own, file, fetched>>
    BY <1>1 DEF Takes
  <1>3. seen' \in Seq(Lines) /\ seen' # <<>>
    BY <1>2 DEF SInv, ScanTypes
  <1>4. file' = start' \/ (own' /\ seen' # <<>>)
    BY <1>2, <1>3 DEF SInv, Untouched, ScanTypes
  <1> QED BY <1>2, <1>3, <1>4 DEF SInv, ScanTypes, Untouched, InOrder, Ahead, AllSeen

\* The line is logged, and perhaps the balance before it.
LEMMA AnsweredScan == SInv /\ Answered => SInv'
  <1> SUFFICES ASSUME SInv, Answered PROVE SInv'
    OBVIOUS
  <1>1. PICK bal \in Balances :
          file' = Logged(file, (IF bal % (2 * Half) > 0 THEN <<None>> ELSE <<>>) \o <<seen[Len(seen)]>>)
    BY DEF Answered
  <1> DEFINE entries == (IF bal % (2 * Half) > 0 THEN <<None>> ELSE <<>>) \o <<seen[Len(seen)]>>
  <1>2. /\ seen \in Seq(Lines) /\ seen # <<>> /\ file \in File /\ pc = "ask" /\ pc' = err
        /\ own \in BOOLEAN /\ fetched \in Nat /\ start \in File
        /\ UNCHANGED <<program, start, own, fetched, seen, err>>
    BY DEF SInv, ScanTypes, InOrder, Answered
  <1>3. Len(seen) \in 1..Len(seen) /\ Len(seen) \in Nat
    BY <1>2, EmptySeq
  <1>4. <<seen[Len(seen)]>> \in Seq(Lines) /\ Len(<<seen[Len(seen)]>>) = 1
    <2>1. seen[Len(seen)] \in Lines
      BY <1>2, <1>3, ElementOfSeq
    <2> QED BY <2>1
  <1>5. entries \in Seq(Lines) /\ entries # <<>>
    <2> DEFINE balance == IF bal % (2 * Half) > 0 THEN <<None>> ELSE <<>>
    <2>1. balance \in Seq(Lines) /\ Len(balance) \in Nat
      BY ToolsConstants
    <2> HIDE DEF balance
    <2>2. entries = balance \o <<seen[Len(seen)]>>
      BY DEF balance
    <2>3. entries \in Seq(Lines) /\ Len(entries) = Len(balance) + 1
      BY <2>1, <2>2, <1>4, ConcatProperties
    <2> QED BY <2>1, <2>3, EmptySeq
  <1>6. file' = Logged(file, entries)
    BY <1>1
  <1> HIDE DEF entries
  <1>7. /\ file' \in File /\ (~own => file' = file)
        /\ Len(file'.lines) >= Len(file.lines)
        /\ own => Len(file'.lines) > Len(file.lines)
    BY <1>5, <1>6, LogGrows DEF SInv
  <1>8. /\ Len(file.lines) \in Nat /\ Len(file'.lines) \in Nat
    BY <1>2, <1>7, LenProperties DEF File
  <1>9. ScanTypes'
    BY <1>2, <1>7 DEF SInv, ScanTypes
  <1>10. Untouched'
    BY <1>2, <1>7 DEF SInv, Untouched
  <1>11. InOrder'
    BY <1>2, <1>3, <1>7, <1>8 DEF SInv, InOrder
  <1>12. Ahead'
    BY <1>2, <1>3, <1>7, <1>8 DEF SInv, InOrder, Ahead
  <1>13. AllSeen'
    BY <1>2 DEF SInv, AllSeen
  <1> QED BY <1>9, <1>10, <1>11, <1>12, <1>13 DEF SInv

\* The token does not answer: the program is over.
LEMMA AskFailsScan == SInv /\ AskFails => SInv'
  <1> SUFFICES ASSUME SInv, AskFails PROVE SInv'
    OBVIOUS
  <1>1. /\ pc = "ask" /\ seen # <<>> /\ pc' = "fatal" /\ file' = Logged(file, <<None>>)
        /\ UNCHANGED <<program, start, own, fetched, seen, err>>
    BY DEF AskFails, SInv, InOrder
  <1>2. <<None>> \in Seq(Lines) /\ <<None>> # <<>>
    BY ToolsConstants
  <1>3. /\ file' \in File /\ (~own => file' = file)
        /\ Len(file'.lines) >= Len(file.lines)
    BY <1>1, <1>2, LogGrows DEF SInv
  <1>4. /\ Len(file.lines) \in Nat /\ Len(file'.lines) \in Nat
        /\ Len(seen) \in Nat /\ fetched \in Nat
    BY <1>3, LenProperties DEF File, SInv, ScanTypes
  <1> QED BY <1>1, <1>3, <1>4 DEF SInv, ScanTypes, Untouched, InOrder, Ahead, AllSeen

\* The conversions leave the files alone.
LEMMA ConvertScan == SInv /\ Convert => SInv'
  <1> SUFFICES ASSUME SInv, Convert PROVE SInv'
    OBVIOUS
  <1>1. ASSUME NEW r, Converts(r) PROVE UNCHANGED <<program, fileVars, pc>>
    BY <1>1 DEF Converts
  <1>2. UNCHANGED <<program, fileVars, pc>>
    BY <1>1 DEF Convert, CallToDecimal, CallToWeiBack, CallToWei, CallCalcGasCost, CallSigRSV,
                RecoverSender, CallIsZeroAddress, CallGetGasPrice
  <1> QED BY <1>2 DEF SInv, fileVars, ScanTypes, Untouched, InOrder, Ahead, AllSeen

-------------------------------------------------------------------------------
\* The invariant holds of every scan: of reval that reads its own log, too.
THEOREM Scanned == Spec => []SInv
  <1>1. SInv /\ [Next]_vars => SInv'
    <2> SUFFICES ASSUME SInv, [Next]_vars PROVE SInv'
      OBVIOUS
    <2>1. CASE Convert
      BY <2>1, ConvertScan
    <2>2. CASE Fetch
      BY <2>2, FetchScan
    <2>3. CASE ReadLine
      BY <2>3, ReadLineScan
    <2>4. CASE ReadRest
      BY <2>4, ReadRestScan
    <2>5. CASE Answered
      BY <2>5, AnsweredScan
    <2>6. CASE AskFails
      BY <2>6, AskFailsScan
    <2>7. CASE ReadFails
      BY <2>7, ReadFailsScan
    <2>8. CASE UNCHANGED vars
      BY <2>8 DEF SInv, vars, fileVars, ScanTypes, Untouched, InOrder, Ahead, AllSeen
    <2> QED BY <2>1, <2>2, <2>3, <2>4, <2>5, <2>6, <2>7, <2>8 DEF Next, Scan
  <1> QED BY ScanInit, <1>1, PTL DEF Spec

\* operate_file and reval print "File read ok!" only after each line that the
\* file had at the beginning, and what followed its last newline, was handled
\* once and in order.
THEOREM ReadsTheFile == Spec => []ScanComplete
  <1>1. SInv => ScanComplete
    BY DEF SInv, AllSeen, ScanComplete
  <1> QED BY <1>1, Scanned, PTL

-------------------------------------------------------------------------------
(* Induction.                                                              *)

\* A set of numbers has a least one.
LEMMA Least ==
  ASSUME NEW T, T \subseteq Nat, T # {} PROVE \E x \in T : \A y \in T : x <= y
  <1> DEFINE R == {ss \in Nat \X Nat : ss[1] < ss[2]}
  <1>1. IsWellFoundedOn(R, Nat)
    BY NatLessThanWellFounded DEF OpToRel
  <1> HIDE DEF R
  <1>2. PICK x \in T : \A y \in T : ~ (<<y, x>> \in R)
    BY ONLY <1>1, WFMin, T \subseteq Nat, T # {}
  <1>3. \A m, n \in Nat : m < n => <<m, n>> \in R
    BY DEF R
  <1>4. ASSUME NEW y \in T PROVE x <= y
    <2>1. x \in Nat /\ y \in Nat
      OBVIOUS
    <2>2. ~ (y < x)
      BY <2>1, <1>2, <1>3
    <2> QED BY <2>1, <2>2
  <1> QED BY <1>4

-------------------------------------------------------------------------------
(* The powers of ten.  Pow halves the exponent.                            *)

\* 10^n from h, the power of half the exponent.
Power(h, n) == IF n = 0 THEN 1 ELSE IF n % 2 = 0 THEN h * h ELSE h * h * 10

\* f has the powers up to n.
Powers(f, n) == f = [i \in 0..n |-> Power(f[i \div 2], i)]

LEMMA HalfExponent == \A n \in Nat \ {0} : n \div 2 \in 0..(n - 1) /\ n \div 2 \in 0..n
  OBVIOUS

\* There is only one table of the powers.
LEMMA PowersUnique ==
  ASSUME NEW f, NEW g, NEW m \in Nat, NEW n \in Nat, m <= n, Powers(f, m), Powers(g, n)
  PROVE  \A i \in 0..m : f[i] = g[i]
  <1> DEFINE T == {i \in 0..m : f[i] # g[i]}
  <1>1. CASE T = {}
    BY <1>1
  <1>2. CASE T # {}
    <2>0. T \subseteq Nat
      OBVIOUS
    <2>1. PICK x \in T : \A y \in T : x <= y
      BY ONLY <2>0, <1>2, Least
    <2>2. /\ x \in Nat /\ x <= m /\ f[x] # g[x]
          /\ f[x] = Power(f[x \div 2], x) /\ g[x] = Power(g[x \div 2], x)
      BY <2>1 DEF Powers
    <2>3. x # 0
      BY <2>2 DEF Power
    <2>4. x \div 2 \in 0..m /\ x \div 2 < x
      BY <2>2, <2>3, HalfExponent
    <2>5. f[x \div 2] = g[x \div 2]
      BY <2>1, <2>4, <2>2
    <2> QED BY <2>2, <2>5
  <1> QED BY <1>1, <1>2

\* There is a table of the powers up to any exponent.
LEMMA PowersExist == \A n \in Nat : \E f : Powers(f, n)
  <1> DEFINE T == {n \in Nat : ~ \E f : Powers(f, n)}
  <1>1. CASE T = {}
    BY <1>1
  <1>2. CASE T # {}
    <2>1. PICK n \in T : \A y \in T : n <= y
      BY <1>2, Least
    <2>2. CASE n = 0
      <3> DEFINE f == [i \in 0..0 |-> 1]
      <3>1. f = [i \in 0..0 |-> Power(f[i \div 2], i)]
        BY DEF Power
      <3> HIDE DEF f
      <3> QED BY <3>1, <2>1, <2>2 DEF Powers
    <2>3. CASE n # 0
      <3>1. n \in Nat /\ n - 1 \in Nat /\ n - 1 < n
        BY <2>1, <2>3
      <3>2. PICK g : Powers(g, n - 1)
        BY <3>1, <2>1
      <3> DEFINE f == [i \in 0..n |-> IF i = n THEN Power(g[n \div 2], n) ELSE g[i]]
      <3>3. ASSUME NEW i \in 0..n PROVE f[i] = Power(f[i \div 2], i)
        <4>1. CASE i = 0
          <5>1. f[0] = g[0] /\ g[0] = Power(g[0 \div 2], 0)
            BY <3>1, <3>2 DEF Powers
          <5> QED BY <5>1, <4>1 DEF Power
        <4>2. CASE i # 0
          <5>1. i \div 2 \in 0..(i - 1) /\ i \div 2 \in 0..n /\ i \div 2 # n
            BY <4>2, <3>1, HalfExponent
          <5>2. f[i \div 2] = g[i \div 2]
            BY <5>1
          <5>3. CASE i = n
            BY <5>2, <5>3
          <5>4. CASE i # n
            <6>1. i \in 0..(n - 1)
              BY <5>4, <3>1
            <6>2. g[i] = Power(g[i \div 2], i)
              BY <6>1, <3>2 DEF Powers
            <6> QED BY <6>2, <5>2, <5>4
          <5> QED BY <5>3, <5>4
        <4> QED BY <4>1, <4>2
      <3>4. f = [i \in 0..n |-> f[i]]
        OBVIOUS
      <3> HIDE DEF f
      <3>5. Powers(f, n)
        BY <3>3, <3>4 DEF Powers
      <3> QED BY <3>5, <2>1
    <2> QED BY <2>2, <2>3
  <1> QED BY <1>1, <1>2

\* Pow10 is what its definition says.
LEMMA Pow10Def == Pow10 = [n \in Nat |-> Power(Pow10[n \div 2], n)]
  <1> DEFINE F(n) == CHOOSE f : Powers(f, n)
             g == [n \in Nat |-> F(n)[n]]
  <1>1. \A n \in Nat : Powers(F(n), n)
    BY PowersExist
  <1> HIDE DEF F
  <1>2. ASSUME NEW n \in Nat PROVE g[n] = Power(g[n \div 2], n)
    <2>1. g[n] = Power(F(n)[n \div 2], n)
      BY <1>1 DEF Powers
    <2>2. CASE n = 0
      BY <2>1, <2>2 DEF Power
    <2>3. CASE n # 0
      <3>1. n \div 2 \in Nat /\ n \div 2 <= n /\ n \div 2 \in 0..(n \div 2)
        BY <2>3
      <3>2. F(n \div 2)[n \div 2] = F(n)[n \div 2]
        BY <3>1, <1>1, PowersUnique
      <3> QED BY <3>1, <3>2, <2>1
    <2> QED BY <2>2, <2>3
  <1>3. g = [n \in Nat |-> g[n]]
    OBVIOUS
  <1> HIDE DEF g
  <1>4. g = [n \in Nat |-> Power(g[n \div 2], n)]
    BY <1>2, <1>3
  <1>5. \A p : (p = [n \in Nat |-> IF n = 0 THEN 1 ELSE LET h == p[n \div 2] IN IF n % 2 = 0 THEN h * h ELSE h * h * 10])
                 <=> p = [n \in Nat |-> Power(p[n \div 2], n)]
    BY DEF Power
  <1> QED BY <1>4, <1>5 DEF Pow10

LEMMA Pow10At ==
  /\ Pow10[0] = 1
  /\ \A n \in Nat \ {0} : LET h == Pow10[n \div 2] IN
       Pow10[n] = IF n % 2 = 0 THEN h * h ELSE h * h * 10
  BY Pow10Def DEF Power

\* A power of ten is a positive number.
LEMMA Pow10Type == \A n \in Nat : Pow10[n] \in Nat \ {0}
  <1> DEFINE T == {n \in Nat : Pow10[n] \notin Nat \ {0}}
  <1>1. CASE T = {}
    BY <1>1
  <1>2. CASE T # {}
    <2>0. T \subseteq Nat
      OBVIOUS
    <2>1. PICK n \in T : \A y \in T : n <= y
      BY ONLY <2>0, <1>2, Least
    <2>2. n \in Nat \ {0}
      BY <2>1, Pow10At
    <2>3. n \div 2 \in Nat /\ n \div 2 < n
      BY <2>2, HalfExponent
    <2>4. Pow10[n \div 2] \in Nat \ {0}
      BY <2>1, <2>3
    <2>5. \A h \in Nat \ {0} : h * h \in Nat \ {0} /\ h * h * 10 \in Nat \ {0}
      OBVIOUS
    <2> QED BY <2>1, <2>2, <2>4, <2>5, Pow10At
  <1> QED BY <1>1, <1>2

\* The halving computes ten times the power before.
LEMMA Pow10Next == \A n \in Nat : Pow10[n + 1] = 10 * Pow10[n]
  <1> DEFINE T == {n \in Nat : Pow10[n + 1] # 10 * Pow10[n]}
  <1>1. CASE T = {}
    BY <1>1
  <1>2. CASE T # {}
    <2>0. T \subseteq Nat
      OBVIOUS
    <2>1. PICK n \in T : \A y \in T : n <= y
      BY ONLY <2>0, <1>2, Least
    <2> DEFINE k == n \div 2
               h == Pow10[k]
               s == Pow10[k + 1]
    <2>2. n \in Nat /\ k \in Nat /\ n = 2 * k + (n % 2) /\ n % 2 \in {0, 1}
      BY <2>1
    <2>3. h \in Nat \ {0} /\ s \in Nat \ {0}
      BY <2>2, Pow10Type
    <2>4. CASE n % 2 = 0
      <3>1. n + 1 = 2 * k + 1 /\ (n + 1) \div 2 = k /\ (n + 1) % 2 = 1 /\ n + 1 \in Nat \ {0}
        BY <2>2, <2>4
      <3>2. Pow10[n + 1] = h * h * 10
        BY <3>1, Pow10At
      <3>3. Pow10[n] = h * h
        <4>1. CASE n = 0
          <5>1. k = 0
            BY <4>1
          <5> QED BY <5>1, <4>1, Pow10At
        <4>2. CASE n # 0
          BY <4>2, <2>2, <2>4, Pow10At
        <4> QED BY <4>1, <4>2
      <3> QED BY <3>2, <3>3, <2>3, <2>1
    <2>5. CASE n % 2 = 1
      <3>1. /\ n + 1 = 2 * (k + 1) /\ (n + 1) \div 2 = k + 1 /\ (n + 1) % 2 = 0
            /\ n + 1 \in Nat \ {0} /\ n \in Nat \ {0} /\ k < n
        BY <2>2, <2>5
      <3>2. Pow10[n + 1] = s * s
        BY <3>1, Pow10At
      <3>3. Pow10[n] = h * h * 10
        BY <3>1, <2>5, Pow10At
      <3>4. s = 10 * h
        BY <3>1, <2>2, <2>1
      <3>5. s * s = 10 * (h * h * 10)
        BY <3>4, <2>3
      <3> QED BY <3>2, <3>3, <3>5, <2>1
    <2> QED BY <2>2, <2>4, <2>5
  <1> QED BY <1>1, <1>2

\* The powers of a sum of exponents.
LEMMA Pow10Sum == \A m, n \in Nat : Pow10[m + n] = Pow10[m] * Pow10[n]
  <1> SUFFICES ASSUME NEW m \in Nat PROVE \A n \in Nat : Pow10[m + n] = Pow10[m] * Pow10[n]
    OBVIOUS
  <1> DEFINE T == {n \in Nat : Pow10[m + n] # Pow10[m] * Pow10[n]}
  <1>1. CASE T = {}
    BY <1>1
  <1>2. CASE T # {}
    <2>0. T \subseteq Nat
      OBVIOUS
    <2>1. PICK n \in T : \A y \in T : n <= y
      BY ONLY <2>0, <1>2, Least
    <2>2. n # 0
      <3>1. m + 0 = m /\ Pow10[m] * 1 = Pow10[m]
        BY Pow10Type
      <3> QED BY <3>1, <2>1, Pow10At
    <2>3. n - 1 \in Nat /\ n = (n - 1) + 1 /\ m + n = (m + (n - 1)) + 1 /\ m + (n - 1) \in Nat
      BY <2>1, <2>2
    <2>4. Pow10[m + (n - 1)] = Pow10[m] * Pow10[n - 1]
      BY <2>1, <2>3
    <2>5. Pow10[n] = 10 * Pow10[n - 1] /\ Pow10[m + n] = 10 * Pow10[m + (n - 1)]
      BY <2>3, Pow10Next
    <2>6. Pow10[m] \in Nat /\ Pow10[n - 1] \in Nat
      BY <2>3, Pow10Type
    <2>7. \A x, y \in Nat : 10 * (x * y) = x * (10 * y)
      OBVIOUS
    <2> QED BY <2>1, <2>4, <2>5, <2>6, <2>7
  <1> QED BY <1>1, <1>2

-------------------------------------------------------------------------------
(* Amounts.                                                                *)

\* Division with remainder.
LEMMA DivMod ==
  \A a \in Int, b \in Nat \ {0} :
    a \div b \in Int /\ a % b \in 0..(b - 1) /\ a = b * (a \div b) + (a % b)
  OBVIOUS

\* The quotient is the only number with a remainder below the divisor.
LEMMA Quotient ==
  ASSUME NEW a \in Int, NEW b \in Nat \ {0}, NEW q \in Int, NEW r \in 0..(b - 1), a = q * b + r
  PROVE  a \div b = q /\ a % b = r
  <1> DEFINE d == a \div b
             e == a % b
  <1>1. d \in Int /\ e \in 0..(b - 1) /\ a = b * d + e
    OBVIOUS
  <1> HIDE DEF d, e
  <1>2. (q - d) * b = e - r
    BY <1>1
  <1>3. ASSUME q - d >= 1 PROVE FALSE
    <2>1. \A x \in Int : x >= 1 => x * b >= b
      OBVIOUS
    <2>2. (q - d) * b >= b
      BY <2>1, <1>1, <1>3
    <2> QED BY <2>2, <1>1, <1>2
  <1>4. ASSUME q - d <= -1 PROVE FALSE
    <2>1. \A x \in Int : x <= -1 => x * b <= -b
      OBVIOUS
    <2>2. (q - d) * b <= -b
      BY <2>1, <1>1, <1>4
    <2> QED BY <2>2, <1>1, <1>2
  <1>5. q = d
    BY <1>1, <1>3, <1>4
  <1> QED BY <1>1, <1>2, <1>5 DEF d, e

\* Rounding leaves at most half of the divisor, of either sign.
LEMMA RoundedIsNear ==
  ASSUME NEW a \in Int, NEW b \in Nat \ {0}
  PROVE  Rounded(a, b) \in Int /\ 2 * (a - Rounded(a, b) * b) \in (-b)..b
  <1>1. ASSUME NEW x \in Nat
        PROVE  LET q == (2 * x + b) \div (2 * b) IN q \in Int /\ 2 * (x - q * b) \in (-b)..b
    <2> DEFINE q == (2 * x + b) \div (2 * b)
               r == (2 * x + b) % (2 * b)
    <2>1. 2 * x + b \in Int /\ 2 * b \in Nat \ {0}
      OBVIOUS
    <2>2. q \in Int /\ r \in 0..(2 * b - 1) /\ 2 * x + b = (2 * b) * q + r
      BY ONLY <2>1, DivMod
    <2> HIDE DEF q, r
    <2>3. (2 * b) * q = 2 * (q * b) /\ q * b \in Int
      BY <2>2
    <2>4. 2 * (x - q * b) = r - b
      BY <2>2, <2>3
    <2> QED BY <2>2, <2>4 DEF q
  <1>2. CASE a < 0
    <2>1. -a \in Nat
      BY <1>2
    <2> DEFINE q == (2 * (-a) + b) \div (2 * b)
    <2>2. q \in Int /\ 2 * ((-a) - q * b) \in (-b)..b
      BY <1>1, <2>1
    <2>3. Rounded(a, b) = -q
      BY <1>2 DEF Rounded
    <2> HIDE DEF q
    <2>4. q * b \in Int /\ (-q) * b = -(q * b)
      BY <2>2
    <2> QED BY <2>2, <2>3, <2>4
  <1>3. CASE a >= 0
    BY <1>1, <1>3 DEF Rounded
  <1> QED BY <1>2, <1>3

\* A common factor does not change what rounding gives.
LEMMA RoundedScales ==
  ASSUME NEW a \in Int, NEW b \in Nat \ {0}, NEW m \in Nat \ {0}
  PROVE  Rounded(a * m, b * m) = Rounded(a, b)
  <1>1. ASSUME NEW x \in Nat
        PROVE  (2 * (x * m) + b * m) \div (2 * (b * m)) = (2 * x + b) \div (2 * b)
    <2> DEFINE q == (2 * x + b) \div (2 * b)
               r == (2 * x + b) % (2 * b)
    <2>1. 2 * x + b \in Int /\ 2 * b \in Nat \ {0}
      OBVIOUS
    <2>2. q \in Int /\ r \in 0..(2 * b - 1) /\ 2 * x + b = (2 * b) * q + r
      BY ONLY <2>1, DivMod
    <2> HIDE DEF q, r
    <2> DEFINE y == 2 * (b * m)
    <2>3. y \in Nat \ {0} /\ 2 * (x * m) + b * m \in Int
      OBVIOUS
    <2>4. 2 * (x * m) + b * m = (2 * x + b) * m
      OBVIOUS
    <2>5. ((2 * b) * q + r) * m = q * (2 * (b * m)) + r * m
      BY <2>2
    <2>6. r * m \in 0..(y - 1)
      <3>1. \A i, j \in Nat : i < j => i * m < j * m
        OBVIOUS
      <3>2. r * m < (2 * b) * m /\ (2 * b) * m = y
        BY <3>1, <2>2
      <3> QED BY <3>2, <2>2, <2>3
    <2>7. 2 * (x * m) + b * m = q * y + r * m
      BY <2>2, <2>4, <2>5
    <2> HIDE DEF y
    <2>8. (2 * (x * m) + b * m) \div y = q
      BY <2>2, <2>3, <2>6, <2>7, Quotient
    <2> QED BY <2>8 DEF y, q
  <1>2. CASE a < 0
    <2>1. -a \in Nat /\ a * m < 0 /\ -(a * m) = (-a) * m
      BY <1>2
    <2> QED BY <1>1, <1>2, <2>1 DEF Rounded
  <1>3. CASE a >= 0
    <2>1. a \in Nat /\ ~(a * m < 0)
      BY <1>3
    <2> QED BY <1>1, <1>3, <2>1 DEF Rounded
  <1> QED BY <1>2, <1>3

\* A whole quotient is not truncated.
LEMMA TruncExact ==
  ASSUME NEW q \in Int, NEW b \in Nat \ {0} PROVE Trunc(q * b, b) = q
  <1>0. 0 \in 0..(b - 1) /\ q * b \in Int
    OBVIOUS
  <1>1. (q * b) \div b = q
    BY <1>0, Quotient
  <1>2. (-(q * b)) \div b = -q
    <2>1. -(q * b) \in Int /\ -q \in Int /\ -(q * b) = (-q) * b + 0
      BY <1>0
    <2> QED BY <2>1, <1>0, Quotient
  <1> QED BY <1>1, <1>2 DEF Trunc

\* What is left of an amount in wei that goes to ether and back.
LEMMA WeiBack ==
  ASSUME NEW v \in Int, NEW d \in Nat
  PROVE  LET unit == IF d > Precision THEN Pow10[d - Precision] ELSE 1
             res == ToWei(ToDecimal(v, d), d)
         IN res % unit = 0 /\ 2 * (v - res) \in (-unit)..unit
  <1> DEFINE p == Pow10[Precision]
             t == Pow10[d]
             num == Rounded(v * p, t)
             res == ToWei(ToDecimal(v, d), d)
  <1>1. p \in Nat \ {0} /\ t \in Nat \ {0} /\ Precision \in Nat
    BY UnitsConstants, Pow10Type
  <1>2. res = Trunc(num * t, p)
    BY DEF ToWei, ToDecimal
  <1>3. CASE d <= Precision
    <2> DEFINE w == Pow10[Precision - d]
    <2>1. Precision - d \in Nat /\ (Precision - d) + d = Precision
      BY <1>1, <1>3
    <2>2. w \in Nat \ {0} /\ p = w * t
      BY <2>1, Pow10Type, Pow10Sum
    <2> HIDE DEF w, p, t
    <2>3. v * w \in Int /\ v * p = (v * w) * t /\ 1 * t = t
      BY <2>2, <1>1
    <2>4. num = Rounded(v * w, 1)
      BY <2>3, <1>1, RoundedScales
    <2>5. \A z \in Int : Rounded(z, 1) \in Int /\ 2 * (z - Rounded(z, 1) * 1) \in (-1)..1
      BY ONLY RoundedIsNear, 1 \in Nat \ {0}
    <2>6. num = v * w
      <3>1. \A x, r \in Int : 2 * (x - r * 1) \in (-1)..1 => r = x
        OBVIOUS
      <3> HIDE DEF num
      <3> QED BY <3>1, <2>3, <2>4, <2>5
    <2>7. num * t = v * p
      BY <2>3, <2>6
    <2>8. res = v
      BY <2>7, <1>1, <1>2, TruncExact
    <2>9. v % 1 = 0 /\ 2 * (v - v) \in (-1)..1
      OBVIOUS
    <2> HIDE DEF res
    <2>10. res % 1 = 0 /\ 2 * (v - res) \in (-1)..1
      BY <2>8, <2>9
    <2>11. ~ (d > Precision)
      BY <1>1, <1>3
    <2> QED BY <2>10, <2>11 DEF res
  <1>4. CASE d > Precision
    <2> DEFINE u == Pow10[d - Precision]
    <2>1. d - Precision \in Nat /\ (d - Precision) + Precision = d
      BY <1>1, <1>4
    <2>2. u \in Nat \ {0} /\ t = u * p
      BY <2>1, <1>1, Pow10Type, Pow10Sum
    <2> HIDE DEF p, t
    <2> HIDE DEF u
    <2> DEFINE r == Rounded(v, u)
    <2>3. r \in Int /\ 2 * (v - r * u) \in (-u)..u
      BY <2>2, RoundedIsNear
    <2>4. num = r
      BY <2>2, <1>1, RoundedScales
    <2> HIDE DEF r
    <2>5. r * u \in Int /\ r * t = (r * u) * p
      BY <2>2, <2>3, <1>1
    <2>6. res = r * u
      BY <2>4, <2>5, <1>1, <1>2, TruncExact
    <2>7. (r * u) % u = 0
      <3>1. 0 \in 0..(u - 1) /\ r * u = r * u + 0
        BY <2>2, <2>5
      <3> QED BY <3>1, <2>2, <2>3, <2>5, Quotient
    <2> HIDE DEF res
    <2> QED BY <2>3, <2>6, <2>7, <1>4 DEF res, u
  <1> QED BY <1>1, <1>3, <1>4

\* An amount that is a whole number of wei is not changed by its text.
LEMMA WholeWei ==
  ASSUME NEW num \in Int, NEW exp \in Nat, NEW d \in Nat,
         (num * Pow10[d]) % Pow10[exp] = 0
  PROVE  ToWei([num |-> num, exp |-> exp], d) * Pow10[exp] = num * Pow10[d]
  <1> DEFINE exact == num * Pow10[d]
             b == Pow10[exp]
             q == exact \div b
  <1>1. b \in Nat \ {0} /\ exact \in Int
    BY Pow10Type
  <1>2. ToWei([num |-> num, exp |-> exp], d) = Trunc(exact, b)
    BY DEF ToWei
  <1> HIDE DEF exact, b
  <1>3. q \in Int /\ exact = b * q + (exact % b)
    BY ONLY <1>1, DivMod
  <1>4. exact % b = 0
    BY DEF exact, b
  <1> HIDE DEF q
  <1>5. exact = q * b
    BY <1>1, <1>3, <1>4
  <1>6. Trunc(exact, b) = q
    BY <1>1, <1>3, <1>5, TruncExact
  <1> QED BY <1>2, <1>5, <1>6 DEF exact, b

-------------------------------------------------------------------------------
(* The other conversions.                                                  *)

\* The cost is the product unless the limit is no signed number.
LEMMA GasCost ==
  ASSUME NEW limit \in Nat, NEW price \in Nat
  PROVE  CalcGasCost(limit, price) = limit * price <=> limit < Half \/ price = 0
  <1>1. Half \in Nat \ {0}
    BY UnitsConstants
  <1>2. CASE limit < Half
    BY <1>2 DEF CalcGasCost, Signed
  <1>3. CASE ~(limit < Half)
    <2>1. CalcGasCost(limit, price) = (limit - 2 * Half) * price
      BY <1>3 DEF CalcGasCost, Signed
    <2>2. (limit - 2 * Half) * price = limit * price - 2 * (Half * price)
      BY <1>1
    <2>3. /\ Half * price \in Nat /\ limit * price \in Nat
          /\ price # 0 => Half * price # 0
          /\ price = 0 => Half * price = 0
      BY <1>1
    <2> QED BY <2>1, <2>2, <2>3, <1>3
  <1> QED BY <1>2, <1>3

\* V of the recovery bytes that sign makes.
LEMMA SmallSigV == \A b \in 0..3 : SigV(b) = 27 + b
  <1>1. \A b \in 0..3 : b \div 16 = 0 /\ b % 16 = b
    OBVIOUS
  <1> QED BY <1>1 DEF SigV

\* The byte that transaction_raw_read makes of V is the recovery id on chain 122,
\* and on no other below 128: not on Rinkeby, whose sender its comment expects
\* (transaction_raw_read.go:63).
LEMMA RawVOnChain ==
  ASSUME NEW chain \in 0..255, NEW id \in {0, 1}
  PROVE  RawV(SignedV(chain, id)) = id <=> chain % 128 = 122
  <1> DEFINE h == chain \div 128
             m == chain % 128
             x == 12 + 2 * m + id
  <1>1. h \in {0, 1} /\ m \in 0..127 /\ chain = 128 * h + m
    OBVIOUS
  <1>2. SignedV(chain, id) - 27 + 4 = h * 256 + x
    BY <1>1 DEF SignedV
  <1> HIDE DEF h, m
  <1>3. CASE m < 122
    <2>1. x \in 0..255 /\ x # id
      BY <1>1, <1>3
    <2>2. (h * 256 + x) % 256 = x
      BY <1>1, <2>1
    <2> QED BY <1>2, <1>3, <2>1, <2>2 DEF RawV, m
  <1>4. CASE m >= 122
    <2>1. x - 256 \in 0..255 /\ (x - 256 = id <=> m = 122)
      BY <1>1, <1>4
    <2>2. (h * 256 + x) % 256 = x - 256
      BY <1>1, <2>1
    <2> QED BY <1>2, <2>1, <2>2 DEF RawV, m
  <1> QED BY <1>1, <1>3, <1>4

\* The zero test of a valid address looks at each of its digits, also when the
\* text is padded to whole bytes.
LEMMA ZeroTest ==
  ASSUME NEW t, t.chars \in Seq(Chars), IsValidAddress(t)
  PROVE  IsZeroAddress(t) <=> \A i \in 1..Digits : t.chars[i] = "0"
  <1> DEFINE c == t.chars
             s == IF Len(c) % 2 = 1 THEN <<"0">> \o c ELSE c
             n == Decodable(s)
  <1>1. /\ c \in Seq(Chars) /\ Len(c) = Digits /\ Digits \in Nat
        /\ \A i \in 1..Digits : c[i] # "g"
    BY UnitsConstants DEF IsValidAddress
  <1>2. ASSUME NEW x \in Seq(Chars), Len(x) % 2 = 0, \A i \in 1..Len(x) : x[i] # "g"
        PROVE  Decodable(x) = Len(x)
    <2> DEFINE Stops(m) == /\ m % 2 = 0 /\ \A i \in 1..m : x[i] # "g"
                           /\ \/ m >= Len(x) - 1
                              \/ x[m + 1] = "g" \/ x[m + 2] = "g"
    <2>1. Len(x) \in 0..Len(x) /\ Stops(Len(x))
      BY <1>2
    <2>2. ASSUME NEW m \in 0..Len(x), Stops(m) PROVE m = Len(x)
      <3>1. CASE m < Len(x) - 1
        <4>1. m + 1 \in 1..Len(x) /\ m + 2 \in 1..Len(x)
          BY <3>1
        <4> QED BY <4>1, <3>1, <2>2, <1>2
      <3>2. CASE m >= Len(x) - 1
        <4>1. m % 2 = 0 /\ Len(x) \in Nat
          BY <2>2
        <4> QED BY <4>1, <3>2, <1>2
      <3> QED BY <3>1, <3>2
    <2> HIDE DEF Stops
    <2>3. (CHOOSE m \in 0..Len(x) : Stops(m)) = Len(x)
      BY <2>1, <2>2
    <2> QED BY <2>3 DEF Decodable, Stops
  <1>3. HexToAddress(t) = SubSeq(s, IF n > Digits THEN n - Digits + 1 ELSE 1, n)
    BY DEF HexToAddress
  <1>4. CASE Len(c) % 2 = 1
    <2>1. /\ s \in Seq(Chars) /\ Len(s) = Digits + 1 /\ s[1] = "0"
          /\ \A i \in 1..Digits : s[i + 1] = c[i]
      <3>1. <<"0">> \in Seq(Chars) /\ Len(<<"0">>) = 1 /\ <<"0">>[1] = "0"
        BY DEF Chars
      <3>2. s = <<"0">> \o c
        BY <1>4
      <3>3. /\ s \in Seq(Chars) /\ Len(s) = 1 + Len(c)
            /\ \A i \in 1..(1 + Len(c)) :
                 s[i] = IF i <= 1 THEN <<"0">>[i] ELSE c[i - 1]
        BY <3>1, <3>2, <1>1, ConcatProperties
      <3> HIDE DEF s
      <3>4. \A i \in 1..Digits : i + 1 \in 1..(1 + Len(c)) /\ ~(i + 1 <= 1) /\ (i + 1) - 1 = i
        BY <1>1
      <3> QED BY <3>1, <3>3, <3>4, <1>1
    <2>2. \A i \in 1..Len(s) : s[i] # "g"
      <3> SUFFICES ASSUME NEW i \in 1..Len(s), i # 1 PROVE s[i] # "g"
        BY <2>1
      <3>1. i - 1 \in 1..Digits /\ i = (i - 1) + 1
        BY <2>1, <1>1
      <3> QED BY <3>1, <2>1, <1>1
    <2>3. Len(s) % 2 = 0
      <3>1. \A k \in Nat : k % 2 = 1 => (k + 1) % 2 = 0
        OBVIOUS
      <3> HIDE DEF s
      <3> QED BY <3>1, <2>1, <1>1, <1>4
    <2>4. n = Digits + 1
      BY <2>1, <2>2, <2>3, <1>2
    <2> HIDE DEF s, n
    <2>5. HexToAddress(t) = SubSeq(s, 2, Digits + 1)
      <3>1. n > Digits /\ n - Digits + 1 = 2
        BY <2>4, <1>1
      <3> QED BY <3>1, <2>4, <1>3
    <2>6. /\ DOMAIN SubSeq(s, 2, Digits + 1) = 1..Digits
          /\ \A i \in 1..Digits : SubSeq(s, 2, Digits + 1)[i] = s[i + 1]
      BY <2>1, <1>1
    <2> QED BY <2>1, <2>5, <2>6 DEF IsZeroAddress
  <1>5. CASE Len(c) % 2 # 1
    <2>1. s = c /\ Len(c) % 2 = 0
      BY <1>1, <1>5
    <2>2. n = Digits
      BY <2>1, <1>1, <1>2
    <2> HIDE DEF s, n
    <2>3. HexToAddress(t) = SubSeq(c, 1, Digits)
      BY <2>1, <2>2, <1>1, <1>3
    <2>4. /\ DOMAIN SubSeq(c, 1, Digits) = 1..Digits
          /\ \A i \in 1..Digits : SubSeq(c, 1, Digits)[i] = c[i]
      BY <1>1
    <2> QED BY <2>3, <2>4 DEF IsZeroAddress
  <1> QED BY <1>4, <1>5

-------------------------------------------------------------------------------
(* util_usage, and the programs that share its conversions.                *)

\* The last conversion's result is that of its arguments, of which the amount
\* that goes back is what came of the first.
Computed ==
  /\ last.op = "ToDecimal" =>
       last.wei \in Int /\ last.decimals \in Nat /\ last.res = ToDecimal(last.wei, last.decimals)
  /\ last.op = "ToWeiBack" =>
       /\ last.wei \in Int /\ last.decimals \in Nat
       /\ last.res = ToWei(ToDecimal(last.wei, last.decimals), last.decimals)
  /\ last.op = "ToWei" =>
       /\ last.amount \in [num : Int, exp : Nat] /\ last.decimals \in Nat
       /\ last.res = ToWei(last.amount, last.decimals)
  /\ last.op = "CalcGasCost" =>
       last.limit \in Nat /\ last.price \in Nat /\ last.res = CalcGasCost(last.limit, last.price)
  /\ last.op = "SigRSV" => last.byte \in 0..255 /\ last.res = SigV(last.byte)
  /\ last.op = "raw_read" =>
       last.chain \in 0..255 /\ last.id \in {0, 1} /\ last.res = RawV(SignedV(last.chain, last.id))
  /\ last.op = "IsZeroAddress" =>
       last.text.chars \in Seq(Chars) /\ last.res = IsZeroAddress(last.text)
  /\ last.op = "GetGasPrice" =>
       /\ last.price \in Nat /\ last.failed \in BOOLEAN
       /\ last.res = GetGasPrice(last.price, last.failed, 2, 9)

\* The conversions are made one after another, each of its own arguments.
LEMMA ConvertComputes == Computed /\ [Next]_vars => Computed'
  <1> SUFFICES ASSUME Computed, [Next]_vars PROVE Computed'
    OBVIOUS
  <1>0. ASSUME NEW d \in Decimals \cup Limits PROVE d \in Nat
    BY ToolsConstants
  <1>1. CASE CallToDecimal
    <2>1. PICK v \in Wei, d \in Decimals : last' = [op |-> "ToDecimal", wei |-> v, decimals |-> d,
                                                    res |-> ToDecimal(v, d)]
      BY <1>1 DEF CallToDecimal, Converts
    <2> QED BY <2>1, <1>0, ToolsConstants DEF Computed
  <1>2. CASE CallToWeiBack
    <2>1. /\ last.op = "ToDecimal"
          /\ last' = [op |-> "ToWeiBack", wei |-> last.wei, decimals |-> last.decimals,
                      res |-> ToWei(last.res, last.decimals)]
      BY <1>2 DEF CallToWeiBack, Converts
    <2>2. /\ last.wei \in Int /\ last.decimals \in Nat
          /\ last.res = ToDecimal(last.wei, last.decimals)
      BY <2>1 DEF Computed
    <2> QED BY <2>1, <2>2 DEF Computed
  <1>3. CASE CallToWei
    <2>1. PICK a \in Amounts, d \in Decimals : last' = [op |-> "ToWei", amount |-> a, decimals |-> d,
                                                        res |-> ToWei(a, d)]
      BY <1>3 DEF CallToWei, Converts
    <2>2. a \in [num : Int, exp : Nat]
      BY ToolsConstants
    <2> QED BY <2>1, <2>2, <1>0 DEF Computed
  <1>4. CASE CallCalcGasCost
    <2>1. PICK l \in Limits, g \in Limits : last' = [op |-> "CalcGasCost", limit |-> l, price |-> g,
                                                     res |-> CalcGasCost(l, g)]
      BY <1>4 DEF CallCalcGasCost, Converts
    <2> QED BY <2>1, <1>0 DEF Computed
  <1>5. CASE CallSigRSV
    <2>1. PICK b \in 0..255 : last' = [op |-> "SigRSV", byte |-> b, res |-> SigV(b)]
      BY <1>5 DEF CallSigRSV, Converts
    <2> QED BY <2>1 DEF Computed
  <1>6. CASE RecoverSender
    <2>1. PICK chain \in 0..255, id \in {0, 1} :
            last' = [op |-> "raw_read", chain |-> chain, id |-> id, res |-> RawV(SignedV(chain, id))]
      BY <1>6 DEF RecoverSender, Converts
    <2> QED BY <2>1 DEF Computed
  <1>7. CASE CallIsZeroAddress
    <2>1. PICK t \in Texts : last' = [op |-> "IsZeroAddress", text |-> t, res |-> IsZeroAddress(t)]
      BY <1>7 DEF CallIsZeroAddress, Converts
    <2>2. t.chars \in Seq(Chars)
      BY ToolsConstants
    <2> QED BY <2>1, <2>2 DEF Computed
  <1>8. CASE CallGetGasPrice
    <2>1. PICK p \in Limits, failed \in BOOLEAN :
            last' = [op |-> "GetGasPrice", price |-> p, failed |-> failed,
                     res |-> GetGasPrice(p, failed, 2, 9)]
      BY <1>8 DEF CallGetGasPrice, Converts
    <2> QED BY <2>1, <1>0 DEF Computed
  <1>9. CASE Scan \/ ReadFails \/ UNCHANGED vars
    <2>1. last' = last
      BY <1>9 DEF Scan, Fetch, ReadLine, ReadRest, ReadFails, Takes, Answered, AskFails, vars
    <2> QED BY <2>1 DEF Computed
  <1> QED BY <1>1, <1>2, <1>3, <1>4, <1>5, <1>6, <1>7, <1>8, <1>9 DEF Next, Convert

\* Every result is one of a conversion of its arguments.
LEMMA Conversions == Spec => []Computed
  <1>1. Init => Computed
    BY DEF Init, Computed
  <1> QED BY <1>1, ConvertComputes, PTL DEF Spec

\* ToDecimal and ToWei lose nothing with up to Precision decimals, and with more
\* of them at most half of what the division leaves out, for every amount.
THEOREM WeiComesBack == Spec => []WeiSurvives
  <1>1. Computed => WeiSurvives
    <2> SUFFICES ASSUME Computed, last.op = "ToWeiBack" PROVE WeiSurvives
      BY DEF WeiSurvives
    <2>1. /\ last.wei \in Int /\ last.decimals \in Nat
          /\ last.res = ToWei(ToDecimal(last.wei, last.decimals), last.decimals)
      BY DEF Computed
    <2> QED BY <2>1, WeiBack DEF WeiSurvives
  <1> QED BY <1>1, Conversions, PTL

\* The conversions of util.go are right where they say they are, for every number,
\* every precision and any length of an address.
THEOREM ConvertsRight == Spec => []ConversionsRight
  <1>1. Computed => ConversionsRight
    <2> SUFFICES ASSUME Computed PROVE ConversionsRight
      OBVIOUS
    <2>1. ASSUME last.op = "CalcGasCost"
          PROVE  last.res = last.limit * last.price <=> last.limit < Half \/ last.price = 0
      BY <2>1, GasCost DEF Computed
    <2>2. ASSUME last.op = "SigRSV", last.byte \in 0..3 PROVE last.res = 27 + last.byte
      BY <2>2, SmallSigV DEF Computed
    <2>3. ASSUME last.op = "IsZeroAddress", IsValidAddress(last.text)
          PROVE  last.res <=> \A i \in 1..Digits : last.text.chars[i] = "0"
      BY <2>3, ZeroTest DEF Computed
    <2>4. ASSUME last.op = "ToWei"
          PROVE  LET exact == last.amount.num * Pow10[last.decimals] IN
                   exact % Pow10[last.amount.exp] = 0 => last.res * Pow10[last.amount.exp] = exact
      <3> DEFINE a == last.amount
      <3>1. /\ a.num \in Int /\ a.exp \in Nat /\ last.decimals \in Nat
            /\ a = [num |-> a.num, exp |-> a.exp]
            /\ last.res = ToWei(a, last.decimals)
        BY <2>4 DEF Computed
      <3> HIDE DEF a
      <3>2. (a.num * Pow10[last.decimals]) % Pow10[a.exp] = 0
              => last.res * Pow10[a.exp] = a.num * Pow10[last.decimals]
        BY <3>1, WholeWei
      <3> QED BY <3>2 DEF a
    <2> QED BY <2>1, <2>2, <2>3, <2>4 DEF ConversionsRight
  <1> QED BY <1>1, Conversions, PTL
===============================================================================
