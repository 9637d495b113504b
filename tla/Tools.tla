--------------------------------- MODULE Tools ---------------------------------
(***************************************************************************)
(* The programs that run on their own: util_usage with the conversions of  *)
(* package util, and the line scanners.  operate_file (and                 *)
(* util/operate_file_by_line) prints every line of a file; reval takes an  *)
(* address from every line, asks a token for its balance and logs to a     *)
(* file, which may be the file it reads: it writes to ./reval.txt and      *)
(* reads code/reval.txt.                                                   *)
(***************************************************************************)
EXTENDS Units, FiniteSets

CONSTANTS
  Wei, Decimals, Amounts, Limits, Texts,  \* inputs of the conversions
  Lines,     \* a line: an address after its "#", or None
  None,
  Files,     \* the files a scan may find: lines with a newline, and what follows the last
  Balances,  \* balances the token may answer
  MaxLines   \* bound: lines of a file that grows while it is read

ASSUME ToolsConstants ==
  /\ None \in Lines /\ Files \subseteq [lines : Seq(Lines), rest : Lines]
  /\ MaxLines \in Nat /\ Wei \subseteq Int /\ {Decimals, Limits, Balances} \subseteq SUBSET Nat
  /\ Amounts \subseteq [num : Int, exp : Nat]
  /\ Texts \subseteq [prefix : BOOLEAN, chars : Seq(Chars)]

VARIABLES
  program,  \* "util_usage", "operate_file" or "reval"
  last,     \* the last conversion: its operation, arguments and result
  start,    \* history: the file when the scan began
  own,      \* the file that is read is the one that is logged to
  file,     \* the file now
  fetched,  \* how many of its lines the reader's buffer has taken
  seen,     \* the lines read, in order
  err,      \* where the error of the last read leads: "read" (none), "done", "failed"
  pc        \* "convert", "read", "ask", and how the scan ended

fileVars == <<start, own, file, fetched, seen, err>>
vars == <<program, last, fileVars, pc>>

Init ==
  /\ program \in {"util_usage", "operate_file", "reval"}
  /\ last = [op |-> "none"]
  /\ start \in (IF program = "util_usage" THEN {[lines |-> <<>>, rest |-> None]} ELSE Files)
  /\ file = start /\ own \in (IF program = "reval" THEN BOOLEAN ELSE {FALSE})
  /\ fetched = 0 /\ seen = <<>> /\ err = "read"
  /\ pc = IF program = "util_usage" THEN "convert" ELSE "read"

-------------------------------------------------------------------------------
(* Conversions.                                                            *)

\* The conversions keep no state, so one after the other says nothing more.
Converts(r) == pc = "convert" /\ last' = r /\ UNCHANGED <<program, fileVars, pc>>

Fresh == last.op = "none"
CallToDecimal == Fresh /\ \E v \in Wei, d \in Decimals :
  Converts([op |-> "ToDecimal", wei |-> v, decimals |-> d, res |-> ToDecimal(v, d)])
\* The amount goes back to wei.
CallToWeiBack ==
  /\ last.op = "ToDecimal"
  /\ Converts([op |-> "ToWeiBack", wei |-> last.wei, decimals |-> last.decimals,
               res |-> ToWei(last.res, last.decimals)])
CallToWei == Fresh /\ \E a \in Amounts, d \in Decimals :
  Converts([op |-> "ToWei", amount |-> a, decimals |-> d, res |-> ToWei(a, d)])
CallCalcGasCost == Fresh /\ \E l \in Limits, g \in Limits :
  Converts([op |-> "CalcGasCost", limit |-> l, price |-> g, res |-> CalcGasCost(l, g)])
CallSigRSV == Fresh /\ \E b \in 0..255 : Converts([op |-> "SigRSV", byte |-> b, res |-> SigV(b)])
RecoverSender == Fresh /\ \E chain \in 0..255, id \in {0, 1} :
  Converts([op |-> "raw_read", chain |-> chain, id |-> id, res |-> RawV(SignedV(chain, id))])
CallIsZeroAddress == Fresh /\ \E t \in Texts :
  Converts([op |-> "IsZeroAddress", text |-> t, res |-> IsZeroAddress(t)])
CallGetGasPrice == Fresh /\ \E p \in Limits, failed \in BOOLEAN :
  Converts([op |-> "GetGasPrice", price |-> p, failed |-> failed, res |-> GetGasPrice(p, failed, 2, 9)])

-------------------------------------------------------------------------------
(* Scans.                                                                  *)

\* The file after something was logged: what follows its last newline becomes
\* part of the first line of the log.
Logged(f, entries) ==
  IF ~own \/ entries = <<>> THEN f
  ELSE LET first == IF f.rest = None THEN Head(entries) ELSE f.rest
       IN [lines |-> f.lines \o <<first>> \o Tail(entries), rest |-> None]

\* The reader takes what the file holds at this moment, up to its buffer's size.
Fetch ==
  /\ pc = "read" /\ Len(seen) = fetched /\ fetched < Len(file.lines)
  /\ fetched' \in (fetched + 1)..Len(file.lines)
  /\ UNCHANGED <<program, last, start, own, file, seen, err, pc>>

\* A line was read; reval takes the part after the "#", and panics without one.
Takes(line, error) ==
  /\ seen' = Append(seen, line) /\ err' = error
  /\ pc' = IF program = "operate_file" THEN error
           ELSE IF line = None THEN "panic" ELSE "ask"
  /\ UNCHANGED <<program, last, start, own, file, fetched>>

ReadLine == pc = "read" /\ Len(seen) < fetched /\ Takes(file.lines[Len(seen) + 1], "read")

\* Mutant: the loop ends at io.EOF before it uses what was read.
ReadRestDropped ==
  /\ pc = "read" /\ Len(seen) = fetched /\ fetched = Len(file.lines) /\ pc' = "done"
  /\ UNCHANGED <<program, last, fileVars>>

\* What follows the last newline, possibly nothing, comes with io.EOF.
ReadRest == /\ pc = "read" /\ Len(seen) = fetched /\ fetched = Len(file.lines)
            /\ Takes(file.rest, "done")

\* ReadString fails for another reason, with a part of a line, which is used too.
ReadFails == /\ pc = "read" /\ Len(seen) = fetched /\ \E line \in Lines : Takes(line, "failed")

\* Mutant: the loop goes on after io.EOF.
AnsweredForEver ==
  /\ pc = "ask" /\ pc' = "read"
  /\ UNCHANGED <<program, last, fileVars>>

\* execute logs a balance whose low 64 bits are not zero; main logs the line.
Answered ==
  /\ pc = "ask" /\ Len(file.lines) < MaxLines
  /\ \E bal \in Balances :
       file' = Logged(file, (IF bal % (2 * Half) > 0 THEN <<None>> ELSE <<>>) \o <<seen[Len(seen)]>>)
  /\ pc' = err
  /\ UNCHANGED <<program, last, start, own, fetched, seen, err>>

\* NewToken or BalanceOf fails: log.Fatal.
AskFails == /\ pc = "ask" /\ pc' = "fatal" /\ file' = Logged(file, <<None>>)
            /\ UNCHANGED <<program, last, start, own, fetched, seen, err>>

Convert == CallToDecimal \/ CallToWeiBack \/ CallToWei \/ CallCalcGasCost \/ CallSigRSV
           \/ RecoverSender \/ CallIsZeroAddress \/ CallGetGasPrice
Scan == Fetch \/ ReadLine \/ ReadRest \/ Answered \/ AskFails

Next == Convert \/ Scan \/ ReadFails

Spec == Init /\ [][Next]_vars
FairSpec == Spec /\ WF_vars(Scan)

-------------------------------------------------------------------------------
(* Properties.                                                             *)

\* An amount that goes to ether and back is the same to half a unit of what the
\* precision of the division leaves: with 18 decimals and a precision of 16 the
\* last two digits of the wei are rounded.
WeiSurvives ==
  last.op = "ToWeiBack" =>
    LET unit == IF last.decimals > Precision THEN Pow10[last.decimals - Precision] ELSE 1
        lost == last.wei - last.res
    IN last.res % unit = 0 /\ 2 * lost \in (-unit)..unit

\* Where the conversions of util.go do what they are for, and no further: the cost
\* of gas for limits that a signed number holds, V for recovery ids, the zero test
\* for valid addresses, a whole number of wei from an amount that has one.  (RawV
\* and GetGasPrice are modelled, not judged: the README says where their callers
\* expect something else of them.)
ConversionsRight ==
  /\ last.op = "CalcGasCost" => (last.res = last.limit * last.price
                                  <=> last.limit < Half \/ last.price = 0)
  /\ last.op = "SigRSV" /\ last.byte \in 0..3 => last.res = 27 + last.byte
  /\ last.op = "IsZeroAddress" /\ IsValidAddress(last.text) =>
       (last.res <=> \A i \in 1..Digits : last.text.chars[i] = "0")
  /\ last.op = "ToWei" => LET exact == last.amount.num * Pow10[last.decimals] IN
       exact % Pow10[last.amount.exp] = 0 => last.res * Pow10[last.amount.exp] = exact

\* "File read ok!" is printed only after every line the file had when the scan
\* began was handled once, in order, whatever the scan has logged meanwhile; a
\* scan of its own log never gets there once it has logged a line.
ScanComplete == pc = "done" => seen = Append(start.lines, start.rest)

\* A scan that logs to another file ends.
ScanEnds == program # "util_usage" /\ ~own ~> pc \in {"done", "failed", "panic", "fatal"}
===============================================================================
