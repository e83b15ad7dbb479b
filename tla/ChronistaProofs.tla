---------------------------- MODULE ChronistaProofs ----------------------------
(***************************************************************************)
(* Invariants of the whole program: what it reads is what was written, and *)
(* what the scheduler guarantees for its inputs holds for what was read.   *)
(***************************************************************************)
EXTENDS Chronista, Scheduler2V2PLProofs, ParserProofs

\* Operations s made of the first lines, one of each.
MadeOf(s, lines) == \A i \in DOMAIN s : Parses(lines[i]) /\ s[i] = Parse(lines[i])

\* What has been read: as many operations as lines, the last line left out
\* when it was the one that threw, and the object made of them one by one.
ReadSoFar ==
    /\ call \in Calls
    /\ stage \in {"start", "reading", "scheduling", "exit0", "exit1", "terminated"}
    /\ lines_read \in 0..Len(call.lines)
    /\ in_schedule.schedule \in Seq(Operations)
    /\ in_schedule = ScheduleOf(in_schedule.schedule)
    /\ MadeOf(in_schedule.schedule, call.lines)
    /\ Len(in_schedule.schedule) =
          IF stage = "terminated" THEN lines_read - 1 ELSE lines_read
    /\ stage = "scheduling" => lines_read = Len(call.lines)
    /\ stage = "terminated" => lines_read # 0 /\ ~Parses(call.lines[lines_read])

\* Before its call the scheduler has nothing; then it has what was read, and
\* what is printed comes from there.
Idle == operations = <<>> /\ incoming_schedule = EmptySchedule /\ Locals
FromInput ==
    /\ stage \in {"start", "reading"} => Idle
    /\ Given \subseteq Elems(in_schedule.schedule)
    /\ Named \subseteq TidsOf(in_schedule.schedule)
    /\ Elems(printed.result) \subseteq Elems(in_schedule.schedule)
    /\ printed.aborted \subseteq TidsOf(in_schedule.schedule)

-----------------------------------------------------------------------------
(* Reading.                                                                 *)

LEMMA LinesOfCall ==
    ASSUME NEW c \in Calls
    PROVE  /\ c.lines \in Seq(Seq(Tokens))
           /\ Len(c.lines) \in Nat
           /\ \A i \in 1..Len(c.lines) : c.lines[i] \in Seq(Tokens)
<1>1. c.lines \in Seq(Seq(Tokens)) BY CallsAssumption
<1> QED BY <1>1, ElemsOfSeq

\* The lines that operations were made of are lines of the call.
LEMMA ReadLinesOf ==
    ASSUME ReadSoFar
    PROVE  /\ Len(in_schedule.schedule) \in Nat
           /\ Len(in_schedule.schedule) <= lines_read
           /\ lines_read \in Nat /\ lines_read <= Len(call.lines)
           /\ DOMAIN in_schedule.schedule = 1..Len(in_schedule.schedule)
           /\ \A i \in DOMAIN in_schedule.schedule :
                 i \in 1..Len(call.lines) /\ call.lines[i] \in Seq(Tokens)
<1>1. Len(call.lines) \in Nat BY LinesOfCall DEF ReadSoFar
<1>2. /\ Len(in_schedule.schedule) \in Nat
      /\ DOMAIN in_schedule.schedule = 1..Len(in_schedule.schedule)
    BY ElemsOfSeq DEF ReadSoFar
<1>3. lines_read \in Nat /\ lines_read <= Len(call.lines) BY <1>1 DEF ReadSoFar
<1>4. Len(in_schedule.schedule) <= lines_read BY <1>2, <1>3 DEF ReadSoFar
<1>5. \A i \in DOMAIN in_schedule.schedule : i \in 1..Len(call.lines)
    BY <1>1, <1>2, <1>3, <1>4
<1> QED BY <1>1, <1>2, <1>3, <1>4, <1>5, LinesOfCall DEF ReadSoFar

LEMMA InitReadSoFar == ProgramInit => ReadSoFar
<1> SUFFICES ASSUME ProgramInit PROVE ReadSoFar OBVIOUS
<1>1. Len(call.lines) \in Nat BY LinesOfCall DEF ProgramInit
<1>2. in_schedule.schedule = <<>> BY DEF ProgramInit, EmptySchedule
<1>3. in_schedule = ScheduleOf(in_schedule.schedule)
    BY <1>2, EmptyScheduleMatches DEF ProgramInit
<1>4. MadeOf(<<>>, call.lines) /\ <<>> \in Seq(Operations) /\ Len(<<>>) = 0
    BY DEF MadeOf
<1> QED BY <1>1, <1>2, <1>3, <1>4 DEF ProgramInit, ReadSoFar

\* A line that parses: the object stays the one made of its operations.
LEMMA ReadLineSoFar ==
    ASSUME ReadSoFar, ReadLine
    PROVE  /\ ReadSoFar'
           /\ Elems(in_schedule.schedule) \subseteq Elems(in_schedule'.schedule)
           /\ TidsOf(in_schedule.schedule) \subseteq TidsOf(in_schedule'.schedule)
<1> DEFINE s == in_schedule.schedule
           op == Parse(NextLine)
           n == Len(s)
           lines == call.lines
<1>1. /\ s \in Seq(Operations) /\ in_schedule = ScheduleOf(s) /\ MadeOf(s, lines)
      /\ n = lines_read /\ n \in Nat /\ Len(lines) \in Nat /\ n + 1 <= Len(lines)
      /\ DOMAIN s = 1..n
    BY ReadLinesOf, LinesOfCall DEF ReadSoFar, ReadLine
<1>2. /\ NextLine = lines[n + 1] /\ Parses(NextLine) /\ n + 1 \in 1..Len(lines)
    BY <1>1 DEF ReadLine, NextLine
<1>3. NextLine \in Seq(Tokens) BY <1>2, LinesOfCall DEF ReadSoFar
<1>4. op \in Operations BY <1>2, <1>3, ParseType
<1> HIDE DEF s, op, n, lines
<1>5. in_schedule' = ScheduleOf(Append(s, op))
    BY <1>1, <1>4, AddOperationMatches DEF ReadLine, op
<1>6. in_schedule'.schedule = Append(s, op) BY <1>5 DEF ScheduleOf
<1>7. /\ Append(s, op) \in Seq(Operations)
      /\ Len(Append(s, op)) = n + 1 /\ DOMAIN Append(s, op) = 1..n + 1
      /\ Append(s, op)[n + 1] = op
      /\ \A i \in 1..n : Append(s, op)[i] = s[i]
    BY <1>1, <1>4, AppendProperties DEF n
<1>8. MadeOf(Append(s, op), lines)
    <2> SUFFICES ASSUME NEW i \in 1..n + 1
                 PROVE  Parses(lines[i]) /\ Append(s, op)[i] = Parse(lines[i])
        BY <1>7 DEF MadeOf
    <2>1. CASE i \in 1..n BY <2>1, <1>1, <1>7 DEF MadeOf
    <2>2. CASE i = n + 1 BY <2>2, <1>2, <1>7 DEF op
    <2> QED BY <2>1, <2>2, <1>1
<1>9. /\ call' = call /\ stage = "reading" /\ stage' = "reading" /\ lines_read' = n + 1
    BY <1>1 DEF ReadLine
<1>10. ReadSoFar'
    <2>1. call'.lines = lines BY <1>9 DEF lines
    <2>2. lines_read' \in 0..Len(lines) BY <1>1, <1>9
    <2>3. MadeOf(in_schedule'.schedule, call'.lines) BY <1>6, <1>8, <2>1
    <2> QED BY <1>5, <1>6, <1>7, <1>9, <2>1, <2>2, <2>3 DEF ReadSoFar
<1>11. Elems(Append(s, op)) = Elems(s) \cup {op} BY <1>1, <1>4, ElemsOfAppend
<1>12. TidsOf(Append(s, op)) = TidsOf(s) \cup {op.tid} BY <1>1, <1>4, TidsOfChanged
<1> QED BY <1>6, <1>10, <1>11, <1>12 DEF s

\* Every other step leaves the object as it is.
LEMMA NextReadSoFar ==
    ASSUME ReadSoFar, [ProgramNext]_allvars
    PROVE  /\ ReadSoFar'
           /\ Elems(in_schedule.schedule) \subseteq Elems(in_schedule'.schedule)
           /\ TidsOf(in_schedule.schedule) \subseteq TidsOf(in_schedule'.schedule)
<1>1. CASE ReadLine BY <1>1, ReadLineSoFar
<1>2. CASE Throw
    <2>1. /\ lines_read \in Nat /\ Len(call.lines) \in Nat
        BY ReadLinesOf, LinesOfCall DEF ReadSoFar
    <2>2. /\ lines_read' \in 0..Len(call.lines) /\ lines_read' # 0
          /\ lines_read' - 1 = lines_read
        BY <1>2, <2>1 DEF Throw
    <2>3. ~Parses(call'.lines[lines_read']) BY <1>2 DEF Throw, NextLine
    <2> QED BY <1>2, <2>2, <2>3 DEF ReadSoFar, Throw
<1>3. CASE CallScheduler
    BY <1>3 DEF ReadSoFar, CallScheduler
<1>4. CASE OpenInput \/ Help \/ Refuse
    BY <1>4 DEF ReadSoFar, OpenInput, Help, Refuse
<1>5. CASE Report BY <1>5 DEF ReadSoFar, Report
<1>6. CASE RunScheduler \/ Ended \/ UNCHANGED allvars
    BY <1>6 DEF ReadSoFar, RunScheduler, Ended, allvars, program
<1> QED BY <1>1, <1>2, <1>3, <1>4, <1>5, <1>6 DEF ProgramNext, ProgramStep

-----------------------------------------------------------------------------
(* Scheduling.                                                              *)

\* What the scheduler guarantees of any input it is called with.
Sound ==
    /\ TypeOK
    /\ Gone
    /\ NothingLost
    /\ Orderly(tuples, wait_for)
    /\ CopyMatches

LEMMA BegunSound == Begun => Sound
BY BegunTypeOK, InitGone, InitNothingLost, InitOrderly DEF Sound, Begun, CopyMatches

LEMMA NextSound == Sound /\ [Next]_vars => Sound'
<1> SUFFICES ASSUME Sound, [Next]_vars PROVE Sound' OBVIOUS
<1>1. TypeOK' BY NextTypeOK DEF Sound
<1>2. Gone' BY NextGone DEF Sound
<1>3. NothingLost' BY NextNothingLost DEF Sound
<1>4. Orderly(tuples', wait_for') BY NextOrderly DEF Sound
<1>5. CopyMatches' BY NextCopyMatches DEF Sound
<1> QED BY <1>1, <1>2, <1>3, <1>4, <1>5 DEF Sound

LEMMA IdleBegun == Idle => Begun
<1>1. <<>> \in Seq(Operations) OBVIOUS
<1> QED BY <1>1, EmptyScheduleMatches DEF Idle, Begun

\* The program either calls the scheduler, or lets it take a step, or leaves
\* its variables alone.
LEMMA CallsOrSteps ==
    ASSUME [ProgramNext]_allvars, ~CallScheduler
    PROVE  [Next]_vars
<1>1. CASE RunScheduler BY <1>1 DEF RunScheduler, Next
<1>2. CASE OpenInput \/ Help \/ Refuse \/ ReadLine \/ Throw \/ Report
    BY <1>2 DEF OpenInput, Help, Refuse, ReadLine, Throw, Report
<1>3. CASE Ended \/ UNCHANGED allvars BY <1>3 DEF Ended, allvars
<1> QED BY <1>1, <1>2, <1>3 DEF ProgramNext, ProgramStep

\* The call begins with what was read and with empty locals.
LEMMA CallBegins ==
    ASSUME ReadSoFar, FromInput, CallScheduler
    PROVE  Begun' /\ operations' = in_schedule.schedule
<1>1. Idle BY DEF FromInput, CallScheduler
<1>2. Locals' BY <1>1 DEF Idle, Locals, CallScheduler
<1>3. /\ operations' = in_schedule.schedule /\ incoming_schedule' = in_schedule
    BY DEF CallScheduler
<1>4. operations' \in Seq(Operations) BY <1>3 DEF ReadSoFar
<1>5. incoming_schedule' = ScheduleOf(operations') BY <1>3 DEF ReadSoFar
<1> QED BY <1>2, <1>3, <1>4, <1>5 DEF Begun

LEMMA InitFromInput == ProgramInit => FromInput
<1> SUFFICES ASSUME ProgramInit PROVE FromInput OBVIOUS
<1>1. Idle BY DEF ProgramInit, Idle
<1>2. Given = {} /\ Named = {}
    BY <1>1, InitNamed DEF Idle, Elems, TidsOf
<1>3. Elems(printed.result) = {} /\ printed.aborted = {}
    BY DEF ProgramInit, Elems
<1> QED BY <1>1, <1>2, <1>3 DEF FromInput

\* What a step adds to the scheduler's variables or prints was there before.
LEMMA NextFromInput ==
    ASSUME ReadSoFar, FromInput, TypeOK, [ProgramNext]_allvars
    PROVE  FromInput'
<1> DEFINE s == in_schedule.schedule
           t == in_schedule'.schedule
<1>1. Elems(s) \subseteq Elems(t) /\ TidsOf(s) \subseteq TidsOf(t) BY NextReadSoFar
<1>2. Given' \subseteq Elems(t) /\ Named' \subseteq TidsOf(t)
    <2>1. CASE CallScheduler
        <3>1. (Locals => Named = TidsOf(operations) /\ Given = Elems(operations))'
            BY InitNamed, PTL
        <3>2. Locals' /\ operations' = t
            BY <2>1, CallBegins DEF Begun, CallScheduler
        <3> QED BY <3>1, <3>2
    <2>2. CASE ~CallScheduler
        <3>1. [Next]_vars BY <2>2, CallsOrSteps
        <3>2. Given' \subseteq Given /\ Named' \subseteq Named
            BY <3>1, NextGiven, NextNamed
        <3> QED BY <1>1, <3>2 DEF FromInput
    <2> QED BY <2>1, <2>2
<1>3. stage' \in {"start", "reading"} => Idle'
    <2>1. ASSUME stage' \in {"start", "reading"}
          PROVE  stage \in {"start", "reading"} /\ UNCHANGED vars
        <3>1. CASE ReadLine \/ OpenInput
            BY <3>1 DEF ReadLine, OpenInput
        <3>2. CASE Help \/ Refuse \/ Throw \/ CallScheduler \/ Report
            BY <2>1, <3>2 DEF Help, Refuse, Throw, CallScheduler, Report
        <3>3. CASE RunScheduler BY <2>1, <3>3 DEF RunScheduler, program
        <3>4. CASE Ended \/ UNCHANGED allvars
            BY <2>1, <3>4 DEF Ended, allvars, program
        <3> QED BY <3>1, <3>2, <3>3, <3>4 DEF ProgramNext, ProgramStep
    <2> QED BY <2>1 DEF FromInput, Idle, Locals, vars
<1>4. Elems(printed'.result) \subseteq Elems(t) /\ printed'.aborted \subseteq TidsOf(t)
    <2>1. CASE Report
        <3>1. Elems(final_operations) \subseteq Elems(s) BY DEF FromInput, Given
        <3> QED BY <2>1, <3>1 DEF Report, GetAbortedTrans
    <2>2. CASE ~Report
        <3>1. printed' = printed
            <4>1. CASE OpenInput \/ Help \/ Refuse \/ ReadLine \/ Throw \/ CallScheduler
                BY <4>1 DEF OpenInput, Help, Refuse, ReadLine, Throw, CallScheduler
            <4>2. CASE RunScheduler \/ Ended \/ UNCHANGED allvars
                BY <4>2 DEF RunScheduler, Ended, allvars, program
            <4> QED BY <2>2, <4>1, <4>2 DEF ProgramNext, ProgramStep
        <3> QED BY <1>1, <3>1 DEF FromInput
    <2> QED BY <2>1, <2>2
<1> QED BY <1>2, <1>3, <1>4 DEF FromInput

-----------------------------------------------------------------------------
(* The program.                                                             *)

ProgramSound == ReadSoFar /\ FromInput /\ Sound

LEMMA InitProgramSound == ProgramInit => ProgramSound
<1>1. ProgramInit => Idle BY DEF ProgramInit, Idle
<1> QED BY <1>1, IdleBegun, BegunSound, InitReadSoFar, InitFromInput DEF ProgramSound

LEMMA NextProgramSound == ProgramSound /\ [ProgramNext]_allvars => ProgramSound'
<1> SUFFICES ASSUME ProgramSound, [ProgramNext]_allvars PROVE ProgramSound' OBVIOUS
<1>1. ReadSoFar' BY NextReadSoFar DEF ProgramSound
<1>2. FromInput' BY NextFromInput DEF ProgramSound, Sound
<1>3. CASE CallScheduler
    <2>1. Begun' BY <1>3, CallBegins DEF ProgramSound
    <2>2. (Begun => Sound)' BY BegunSound, PTL
    <2> QED BY <1>1, <1>2, <2>1, <2>2 DEF ProgramSound
<1>4. CASE ~CallScheduler
    BY <1>1, <1>2, <1>4, CallsOrSteps, NextSound DEF ProgramSound
<1> QED BY <1>3, <1>4

LEMMA ProgramStaysSound == ProgramSpec => []ProgramSound
BY InitProgramSound, NextProgramSound, PTL DEF ProgramSpec

\* Whatever the lines are, what is made of them is a schedule that the
\* scheduler can work on, the output holds only operations of the input, and
\* only ids the input can name are reported as aborted.
THEOREM ProgramTypeCorrect == ProgramSpec => []ProgramTypeOK
<1>1. ProgramSound => ProgramTypeOK
    <2> SUFFICES ASSUME ProgramSound PROVE ProgramTypeOK OBVIOUS
    <2>1. in_schedule \in [schedule : Seq(Operations), transaction_ids : Seq(Tids)]
        BY ScheduleOfType DEF ProgramSound, ReadSoFar
    <2>2. TidsOf(in_schedule.schedule) \subseteq Tids
        <3>1. \A op \in Operations : op.tid \in Tids BY DEF Operations
        <3>2. \A i \in DOMAIN in_schedule.schedule : in_schedule.schedule[i] \in Operations
            BY ElemsOfSeq DEF ProgramSound, ReadSoFar
        <3> QED BY <3>1, <3>2 DEF TidsOf
    <2> QED BY <2>1, <2>2 DEF ProgramSound, ReadSoFar, FromInput, ProgramTypeOK
<1> QED BY <1>1, ProgramStaysSound, PTL

\* For every input: each operation is what its line says, token for token, the
\* scheduler starts only when all lines are read, and the line that throws is
\* one that no operation is written as.
THEOREM AlwaysReadAsWritten == ProgramSpec => []ReadAsWritten
<1>1. ProgramSound => ReadAsWritten
    <2> SUFFICES ASSUME ProgramSound PROVE ReadAsWritten OBVIOUS
    <2>1. ReadSoFar BY DEF ProgramSound
    <2>2. ASSUME NEW i \in DOMAIN in_schedule.schedule
          PROVE  call.lines[i] = Written(in_schedule.schedule[i])
        <3>1. call.lines[i] \in Seq(Tokens) BY <2>1, ReadLinesOf
        <3>2. /\ Parses(call.lines[i])
              /\ in_schedule.schedule[i] = Parse(call.lines[i])
            BY <2>1 DEF ReadSoFar, MadeOf
        <3> QED BY <3>1, <3>2, WrittenBack
    <2>3. stage = "scheduling" => Len(in_schedule.schedule) = Len(call.lines)
        BY <2>1 DEF ReadSoFar
    <2>4. ASSUME stage = "terminated", NEW op \in Operations,
                 Written(op) = call.lines[lines_read]
          PROVE  FALSE
        <3>1. lines_read \in 1..Len(call.lines)
            BY <2>1, <2>4, ReadLinesOf DEF ReadSoFar
        <3>2. call.lines[lines_read] \in Seq(Tokens)
            BY <2>1, <3>1, LinesOfCall DEF ReadSoFar
        <3>3. Parses(call.lines[lines_read]) BY <2>4, <3>2, WrittenParses
        <3> QED BY <2>1, <2>4, <3>3 DEF ReadSoFar
    <2> QED BY <2>2, <2>3, <2>4 DEF ReadAsWritten
<1> QED BY <1>1, ProgramStaysSound, PTL

\* For every line of every input, the depth the first scan counts is the length
\* of the path the second one collects, and the resource the third one finds
\* is that path's last id.
THEOREM ScansAlwaysAgree == ProgramSpec => []ScansAgree
<1>1. ProgramSound => ScansAgree
    <2> SUFFICES ASSUME ProgramSound, lines_read < Len(call.lines),
                        Parses(NextLine), Parse(NextLine).type # "Commit"
                 PROVE  /\ GetGranularity(NextLine) = Len(Parse(NextLine).path)
                        /\ ScanResource(NextLine) = GetResource(Parse(NextLine))
        BY DEF ScansAgree
    <2>1. lines_read + 1 \in 1..Len(call.lines)
        BY ReadLinesOf, LinesOfCall DEF ProgramSound, ReadSoFar
    <2>2. NextLine \in Seq(Tokens)
        BY <2>1, LinesOfCall DEF ProgramSound, ReadSoFar, NextLine
    <2> QED BY <2>2, ScansOfAccess
<1> QED BY <1>1, ProgramStaysSound, PTL

\* What the scheduler guarantees for the schedules it is given it guarantees
\* in the program, for everything that can be read: no trace is left of an
\* aborted transaction, no operation is lost, no request is made twice, no arc
\* outlives the locks it was added for, and the object it purges stays equal
\* to its operations.
THEOREM GuaranteesHoldInProgram ==
    ProgramSpec => [](/\ TypeOK
                      /\ AbortedGone
                      /\ NothingLost
                      /\ OneRequest
                      /\ ArcsLeadToHolders
                      /\ CopyMatches)
<1>1. ProgramSound => /\ TypeOK /\ AbortedGone /\ NothingLost
                      /\ OneRequest /\ ArcsLeadToHolders /\ CopyMatches
    <2> SUFFICES ASSUME Sound
                 PROVE  /\ TypeOK /\ AbortedGone /\ NothingLost
                        /\ OneRequest /\ ArcsLeadToHolders /\ CopyMatches
        BY DEF ProgramSound
    <2>1. TypeOK /\ NothingLost /\ CopyMatches BY DEF Sound
    <2>2. AbortedGone BY GoneMeans DEF Sound
    <2>3. OneRequest /\ ArcsLeadToHolders BY OrderlyMeans DEF Sound
    <2> QED BY <2>1, <2>2, <2>3
<1> QED BY <1>1, ProgramStaysSound, PTL

-----------------------------------------------------------------------------
(* Calls without a transaction 0, the id that stands for "none found" in    *)
(* the search for a victim.                                                 *)

NoTransaction0 ==
    \A c \in Calls : \A i \in 1..Len(c.lines) :
        Parses(c.lines[i]) => Parse(c.lines[i]).tid # 0

\* Every transaction that was read is aborted or has operations that are left,
\* all of which the scheduler has passed when it returns.
Accounted ==
    /\ stage = "scheduling" =>
          TidsOf(in_schedule.schedule) \subseteq aborted \cup TidsOf(operations)
    /\ pc = "done" => it > Len(operations)

\* So the report can be explained; and no transaction that was aborted can be
\* missing in it, because all victims were transactions.
Reported == ProgramSound /\ Seen /\ Accounted /\ ReportExplained

LEMMA NextAccounted ==
    ASSUME ProgramSound, Accounted, [ProgramNext]_allvars
    PROVE  Accounted'
<1>1. CASE CallScheduler
    <2>1. Begun' /\ operations' = in_schedule.schedule /\ in_schedule' = in_schedule
        BY <1>1, CallBegins DEF ProgramSound, CallScheduler
    <2> QED BY <2>1 DEF Accounted, Begun, Locals
<1>2. CASE RunScheduler
    <2>1. /\ operations \in Seq(Operations) /\ stage = "scheduling"
          /\ stage' = stage /\ in_schedule' = in_schedule
        BY <1>2 DEF ProgramSound, Sound, TypeOK, RunScheduler, program
    <2>2. CASE ResolveDeadlock
        <3>1. PICK tid : /\ operations' = Without(operations, tid)
                         /\ aborted' = aborted \cup {tid}
                         /\ pc' = "scan"
            BY <2>2 DEF ResolveDeadlock, AbortTransaction
        <3>2. TidsOf(Without(operations, tid)) = TidsOf(operations) \ {tid}
            BY <2>1, TidsOfChanged
        <3> QED BY <2>1, <3>1, <3>2 DEF Accounted
    <2>3. CASE Return BY <2>1, <2>3 DEF Return, Accounted
    <2>4. CASE ~ResolveDeadlock /\ ~Return
        <3>1. operations' = operations /\ aborted' = aborted /\ pc' # "done"
            BY <1>2, <2>4 DEF RunScheduler, Step, Defer, ScheduleNext,
               PutNextInWaitingList, TakeNext, StartScan, ScheduleWaiting,
               KeepWaiting, ContinueScan, EndScan, ProgramSound, Sound, TypeOK
        <3> QED BY <2>1, <3>1 DEF Accounted
    <2> QED BY <2>2, <2>3, <2>4
<1>3. CASE ~CallScheduler /\ ~RunScheduler
    <2>1. /\ UNCHANGED vars
          /\ stage' = "scheduling" => stage = "scheduling" /\ in_schedule' = in_schedule
        BY <1>3 DEF ProgramNext, ProgramStep, OpenInput, Help, Refuse, ReadLine,
                    Throw, Report, Ended, allvars, program
    <2> QED BY <2>1 DEF Accounted, vars
<1> QED BY <1>1, <1>2, <1>3

LEMMA Never0 ==
    ASSUME NoTransaction0, ReadSoFar
    PROVE  0 \notin TidsOf(in_schedule.schedule)
<1> SUFFICES ASSUME NEW i \in DOMAIN in_schedule.schedule
             PROVE  in_schedule.schedule[i].tid # 0
    BY DEF TidsOf
<1>1. i \in 1..Len(call.lines) BY ReadLinesOf
<1>2. /\ call \in Calls /\ Parses(call.lines[i])
      /\ in_schedule.schedule[i] = Parse(call.lines[i])
    BY DEF ReadSoFar, MadeOf
<1> QED BY <1>1, <1>2 DEF NoTransaction0

LEMMA InitReported == ProgramInit => Reported
<1>1. ProgramInit => Idle BY DEF ProgramInit, Idle
<1>2. ProgramInit => Accounted /\ ReportExplained
    BY DEF ProgramInit, Locals, Accounted, ReportExplained
<1> QED BY <1>1, <1>2, IdleBegun, InitSeen, InitProgramSound DEF Reported

LEMMA NextReported ==
    ASSUME NoTransaction0, Reported, [ProgramNext]_allvars
    PROVE  Reported'
<1>1. ProgramSound /\ ReadSoFar /\ FromInput /\ TypeOK /\ Gone /\ Seen
    BY DEF Reported, ProgramSound, Sound
<1>2. ProgramSound' BY <1>1, NextProgramSound
<1>3. Seen'
    <2>1. CASE CallScheduler
        <3>1. Begun' BY <1>1, <2>1, CallBegins
        <3>2. (Begun => Seen)' BY InitSeen, PTL
        <3> QED BY <3>1, <3>2
    <2>2. CASE ~CallScheduler
        <3>1. 0 \notin Named BY <1>1, Never0 DEF FromInput
        <3> QED BY <1>1, <2>2, <3>1, CallsOrSteps, NextSeen
    <2> QED BY <2>1, <2>2
<1>4. Accounted' BY <1>1, NextAccounted DEF Reported
<1>5. ReportExplained'
    <2>1. CASE Report
        <3>1. aborted \subseteq Named BY <1>1 DEF Seen, VictimFound, Named
        <3>2. aborted \cap TidsOf(final_operations) = {}
            BY <1>1, GoneMeans DEF AbortedGone
        <3>3. TidsOf(waiting_list) \subseteq Named BY DEF Named
        <3>4. ASSUME NEW t \in TidsOf(operations), t \notin TidsOf(final_operations)
              PROVE  t \in TidsOf(waiting_list)
            <4>1. PICK i \in DOMAIN operations : t = operations[i].tid BY DEF TidsOf
            <4>2. i < it
                <5>1. it > Len(operations) BY <2>1 DEF Report, Reported, Accounted
                <5>2. /\ DOMAIN operations = 1..Len(operations)
                      /\ Len(operations) \in Nat /\ it \in Nat
                    BY <1>1, ElemsOfSeq DEF TypeOK
                <5> QED BY <5>1, <5>2
            <4>3. operations[i] \in Elems(final_operations) \cup Elems(waiting_list)
                BY <1>1, <4>2 DEF ProgramSound, Sound, NothingLost
            <4> QED BY <3>4, <4>1, <4>3 DEF Elems, TidsOf
        <3>5. TidsOf(in_schedule.schedule) \subseteq aborted \cup TidsOf(operations)
            BY <2>1 DEF Report, Reported, Accounted
        <3>6. /\ printed'.result = final_operations
              /\ printed'.aborted = TidsOf(in_schedule.schedule) \ TidsOf(final_operations)
              /\ aborted' = aborted /\ waiting_list' = waiting_list
            BY <2>1 DEF Report, GetAbortedTrans, vars
        <3>7. Named \subseteq TidsOf(in_schedule.schedule) BY <1>1 DEF FromInput
        <3>8. printed'.aborted = aborted \cup (TidsOf(waiting_list) \ TidsOf(final_operations))
            BY <3>1, <3>2, <3>3, <3>4, <3>5, <3>6, <3>7
        <3> QED BY <3>6, <3>8 DEF ReportExplained
    <2>2. CASE Help BY <2>2 DEF Help, AsksHelp, ReportExplained
    <2>3. CASE OpenInput \/ Refuse \/ ReadLine \/ Throw \/ CallScheduler
        BY <2>3 DEF OpenInput, Refuse, ReadLine, Throw, CallScheduler, ReportExplained
    <2>4. CASE RunScheduler BY <2>4 DEF RunScheduler, program, ReportExplained
    <2>5. CASE Ended \/ UNCHANGED allvars
        BY <2>5 DEF Reported, Ended, allvars, program, vars, ReportExplained
    <2> QED BY <2>1, <2>2, <2>3, <2>4, <2>5 DEF ProgramNext, ProgramStep
<1> QED BY <1>2, <1>3, <1>4, <1>5 DEF Reported

LEMMA StaysReported == NoTransaction0 => (ProgramSpec => []Reported)
<1> SUFFICES ASSUME NoTransaction0 PROVE ProgramSpec => []Reported OBVIOUS
<1>1. Reported /\ [ProgramNext]_allvars => Reported' BY NextReported
<1> QED BY <1>1, InitReported, PTL DEF ProgramSpec

\* If no line names a transaction 0, the transactions that are printed as
\* aborted are those that were, and those left waiting with nothing in the
\* output.  (The search takes a transaction 0 for "none found", and what is then
\* aborted is nobody.)
THEOREM ReportAlwaysExplained ==
    ASSUME NoTransaction0
    PROVE  ProgramSpec => []ReportExplained
<1>1. Reported => ReportExplained BY DEF Reported
<1> QED BY <1>1, StaysReported, PTL

\* Under the same condition a deadlock of anything that was read has a victim
\* that is found, because whoever has a lock or an arc is in the chronology.
THEOREM VictimsFoundInProgram ==
    ASSUME NoTransaction0
    PROVE  ProgramSpec => [](HoldersSeen /\ VictimFound)
<1>1. Reported => HoldersSeen /\ VictimFound
    BY DEF Reported, Seen, HoldersSeen, Known, Owners, Nodes
<1> QED BY <1>1, StaysReported, PTL

Progress == /\ Less(Remaining', Remaining)
            /\ \A k \in DOMAIN Remaining : Remaining'[k] >= 0
Running == Reported /\ Ongoing /\ Balanced

LEMMA InitRunning == ProgramInit => Running
<1>1. ProgramInit => Idle BY DEF ProgramInit, Idle
<1> QED BY <1>1, IdleBegun, BegunOngoing, BegunBalanced, InitReported DEF Running

LEMMA NextRunning ==
    ASSUME NoTransaction0, Running, [ProgramNext]_allvars
    PROVE  Running' /\ [RunScheduler => Progress]_allvars
<1>1. Reported' BY NextReported DEF Running
<1>2. CASE CallScheduler
    <2>1. Begun' BY <1>2, CallBegins DEF Running, Reported, ProgramSound
    <2>2. (Begun => Ongoing /\ Balanced)' BY BegunOngoing, BegunBalanced, PTL
    <2>3. ~RunScheduler BY <1>2 DEF CallScheduler, RunScheduler, program
    <2> QED BY <1>1, <2>1, <2>2, <2>3 DEF Running
<1>3. CASE ~CallScheduler
    <2>1. [Next]_vars BY <1>3, CallsOrSteps
    <2>2. VictimFound' BY <1>1 DEF Reported, Seen
    <2>3. Ongoing /\ Gone /\ Balanced BY DEF Running, Reported, ProgramSound, Sound
    <2>4. Ongoing' /\ [Progress]_vars BY <2>1, <2>2, <2>3, NextOngoing DEF Progress
    <2>5. Balanced' BY <2>1, <2>2, <2>3, NextBalanced
    <2>6. RunScheduler /\ UNCHANGED vars => UNCHANGED allvars
        BY DEF RunScheduler, allvars
    <2> HIDE DEF Progress
    <2> QED BY <1>1, <2>4, <2>5, <2>6 DEF Running
<1> QED BY <1>2, <1>3

\* Under the same condition the scheduler gets on with whatever was read: every
\* step of it leaves less to do, and its iterators stay within their vectors.
THEOREM ProgressesInProgram ==
    ASSUME NoTransaction0
    PROVE  ProgramSpec =>
             [][RunScheduler => /\ Less(Remaining', Remaining)
                                /\ \A k \in DOMAIN Remaining : Remaining'[k] >= 0]_allvars
<1>1. Running /\ [ProgramNext]_allvars => Running' /\ [RunScheduler => Progress]_allvars
    BY NextRunning
<1>2. Progress <=> /\ Less(Remaining', Remaining)
                   /\ \A k \in DOMAIN Remaining : Remaining'[k] >= 0
    BY DEF Progress
<1> QED BY <1>1, <1>2, InitRunning, PTL DEF ProgramSpec

\* And each operation that was read is printed at least as often as it was read
\* since the last abort, less what still waits, and at most once more for every
\* abort.
THEOREM RepeatsBoundedInProgram ==
    ASSUME NoTransaction0
    PROVE  ProgramSpec => []RepeatsBounded
<1>1. Running /\ [ProgramNext]_allvars => Running' BY NextRunning
<1>2. Running => RepeatsBounded BY BalancedMeans DEF Running
<1> QED BY <1>1, <1>2, InitRunning, PTL DEF ProgramSpec

-----------------------------------------------------------------------------
(* Calls that lock databases only.                                          *)

FlatCalls ==
    \A c \in Calls : \A i \in 1..Len(c.lines) :
        Parses(c.lines[i]) => Len(Parse(c.lines[i]).path) <= 1

LEMMA ReadFlat ==
    ASSUME FlatCalls, ReadSoFar
    PROVE  FlatOps(in_schedule.schedule)
<1> SUFFICES ASSUME NEW i \in DOMAIN in_schedule.schedule
             PROVE  Len(in_schedule.schedule[i].path) <= 1
    BY DEF FlatOps, Elems
<1>1. i \in 1..Len(call.lines) BY ReadLinesOf
<1>2. /\ call \in Calls /\ Parses(call.lines[i])
      /\ in_schedule.schedule[i] = Parse(call.lines[i])
    BY DEF ReadSoFar, MadeOf
<1> QED BY <1>1, <1>2 DEF FlatCalls

\* If every line locks a database, a reader and a certifier never hold one
\* together, in the program as in the scheduler alone.
THEOREM ReadersNeverMeetCertifiersInProgram ==
    ASSUME FlatCalls
    PROVE  ProgramSpec => []ReadersExcludeCertifiers
<1> DEFINE I == ProgramSound /\ Excluded
<1>1. ProgramInit => I
    <2>1. ProgramInit => Idle BY DEF ProgramInit, Idle
    <2>2. Idle => FlatOps(operations) BY DEF Idle, FlatOps, Elems
    <2> QED BY <2>1, <2>2, IdleBegun, InitExcluded, InitProgramSound
<1>2. I /\ [ProgramNext]_allvars => I'
    <2> SUFFICES ASSUME I, [ProgramNext]_allvars PROVE I' OBVIOUS
    <2>1. ProgramSound' BY NextProgramSound
    <2>2. CASE CallScheduler
        <3>1. Begun' /\ operations' = in_schedule.schedule
            BY <2>2, CallBegins DEF ProgramSound
        <3>2. FlatOps(operations)' BY <3>1, ReadFlat DEF ProgramSound, FlatOps
        <3>3. (Begun /\ FlatOps(operations) => Excluded)' BY InitExcluded, PTL
        <3> QED BY <2>1, <3>1, <3>2, <3>3
    <2>3. CASE ~CallScheduler
        BY <2>1, <2>3, CallsOrSteps, NextExcluded DEF ProgramSound, Sound
    <2> QED BY <2>2, <2>3
<1> QED BY <1>1, <1>2, ExcludedMeans, PTL DEF ProgramSpec
=============================================================================
