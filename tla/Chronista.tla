------------------------------- MODULE Chronista -------------------------------
(***************************************************************************)
(* The whole program (main.cpp): the command line, the input read line by  *)
(* line into a schedule, the scheduler run on a copy of it, and the report *)
(* of what came out.  A line that is no operation throws an exception that *)
(* nobody catches.                                                         *)
(***************************************************************************)
EXTENDS Scheduler2V2PL, OperationParser

\* The ways to call it: the option, the number of words on the command line,
\* whether a file named there opens, and the lines of the file or of stdin.
CONSTANT Calls

ASSUME CallsAssumption ==
    \A c \in Calls : c \in [option : STRING, argc : Nat, opens : BOOLEAN,
                           lines : Seq(Seq(Tokens))]

VARIABLES
    call,          \* one of Calls
    stage,         \* "start", "reading", "scheduling"; or how it ended:
                   \* "exit0", "exit1" or "terminated", by an exception
    lines_read,    \* how many lines getline has delivered
    in_schedule,   \* the Schedule object made of them
    printed        \* the result and the aborted transactions on stdout

program == <<call, stage, lines_read, in_schedule, printed>>
allvars == <<program, vars>>

ProgramInit ==
    /\ call \in Calls
    /\ stage = "start"
    /\ lines_read = 0
    /\ in_schedule = EmptySchedule
    /\ printed = [result |-> <<>>, aborted |-> {}]
    /\ operations = <<>>
    /\ incoming_schedule = EmptySchedule
    /\ Locals

-----------------------------------------------------------------------------
(* main.                                                                    *)

ReadsFile == call.option = "-f" /\ call.argc = 3 /\ call.opens
ReadsStdin == call.option = "-i" /\ call.argc = 2
AsksHelp == call.option = "-h" /\ call.argc = 2

OpenInput ==
    /\ stage = "start"
    /\ ReadsFile \/ ReadsStdin
    /\ stage' = "reading"
    /\ UNCHANGED <<call, lines_read, in_schedule, printed, vars>>

Help ==
    /\ stage = "start"
    /\ AsksHelp
    /\ stage' = "exit0"
    /\ UNCHANGED <<call, lines_read, in_schedule, printed, vars>>

\* Too few or too many words, a file that does not open, an unknown option.
Refuse ==
    /\ stage = "start"
    /\ ~(ReadsFile \/ ReadsStdin \/ AsksHelp)
    /\ stage' = "exit1"
    /\ UNCHANGED <<call, lines_read, in_schedule, printed, vars>>

-----------------------------------------------------------------------------
(* handle_trans_input.                                                      *)

NextLine == call.lines[lines_read + 1]

ReadLine ==
    /\ stage = "reading"
    /\ lines_read < Len(call.lines)
    /\ Parses(NextLine)
    /\ in_schedule' = AddOperation(in_schedule, Parse(NextLine))
    /\ lines_read' = lines_read + 1
    /\ UNCHANGED <<call, stage, printed, vars>>

\* Mutant: the loop ends at a line that is no operation.
StopAtBadLine ==
    /\ stage = "reading"
    /\ lines_read < Len(call.lines)
    /\ ~Parses(NextLine)
    /\ stage' = "scheduling"
    /\ operations' = in_schedule.schedule
    /\ incoming_schedule' = in_schedule
    /\ UNCHANGED <<call, lines_read, in_schedule, printed, it, waiting_list, it_wl,
                   final_operations, chronology, waiting_transactions, tuples,
                   wait_for, pc, aborted>>

\* std::terminate, before anything is printed.
Throw ==
    /\ stage = "reading"
    /\ lines_read < Len(call.lines)
    /\ ~Parses(NextLine)
    /\ stage' = "terminated"
    /\ lines_read' = lines_read + 1
    /\ UNCHANGED <<call, in_schedule, printed, vars>>

\* The object is passed by value.
CallScheduler ==
    /\ stage = "reading"
    /\ lines_read = Len(call.lines)
    /\ stage' = "scheduling"
    /\ operations' = in_schedule.schedule
    /\ incoming_schedule' = in_schedule
    /\ UNCHANGED <<call, lines_read, in_schedule, printed, it, waiting_list, it_wl,
                   final_operations, chronology, waiting_transactions, tuples,
                   wait_for, pc, aborted>>

RunScheduler ==
    /\ stage = "scheduling"
    /\ Step
    /\ UNCHANGED program

\* Mutant: the scheduler was given the object itself.
ReportPurged ==
    /\ stage = "scheduling"
    /\ pc = "done"
    /\ printed' = [result |-> final_operations,
                   aborted |-> GetAbortedTrans(TidsOf(incoming_schedule.schedule),
                                               final_operations)]
    /\ stage' = "exit0"
    /\ UNCHANGED <<call, lines_read, in_schedule, vars>>

Report ==
    /\ stage = "scheduling"
    /\ pc = "done"
    /\ printed' = [result |-> final_operations,
                   aborted |-> GetAbortedTrans(TidsOf(in_schedule.schedule),
                                               final_operations)]
    /\ stage' = "exit0"
    /\ UNCHANGED <<call, lines_read, in_schedule, vars>>

Ended == stage \in {"exit0", "exit1", "terminated"} /\ UNCHANGED allvars

ProgramStep ==
    \/ OpenInput \/ Help \/ Refuse
    \/ ReadLine \/ Throw \/ CallScheduler \/ RunScheduler \/ Report

ProgramNext == ProgramStep \/ Ended

\* One thread; the input is finite and whoever writes to stdin closes it.
ProgramSpec == ProgramInit /\ [][ProgramNext]_allvars /\ WF_allvars(ProgramStep)

-----------------------------------------------------------------------------

\* What is made of lines is a schedule the scheduler can work on: paths of one
\* to four ids, the empty path for commits only (can_be_scheduled takes the
\* first id and Granularity::None has no RscType), no id that is NoTid.
ProgramTypeOK ==
    /\ in_schedule \in [schedule : Seq(Operations), transaction_ids : Seq(Tids)]
    /\ lines_read \in 0..Len(call.lines)
    /\ stage \in {"start", "reading", "scheduling", "exit0", "exit1", "terminated"}
    /\ Elems(printed.result) \subseteq Elems(in_schedule.schedule)
    /\ printed.aborted \subseteq Tids

\* Every line stands for the operation made of it, only a line that no
\* operation is written as throws, and then nothing is scheduled: the lines
\* are read all or none (the constructor of Operation and Schedule::parse).
ReadAsWritten ==
    /\ \A i \in DOMAIN in_schedule.schedule :
          call.lines[i] = Written(in_schedule.schedule[i])
    /\ stage = "scheduling" => Len(in_schedule.schedule) = Len(call.lines)
    /\ stage = "terminated" =>
          ~\E op \in Operations : Written(op) = call.lines[lines_read]

\* The three scans of a line agree: the depth that chooses the RscType is the
\* length of the path, and the resource is the last id of the path
\* (parse_operation, set_full_resource_path, set_resource).
ScansAgree ==
    stage = "reading" /\ lines_read < Len(call.lines) =>
        (Parses(NextLine) /\ Parse(NextLine).type # "Commit" =>
            /\ GetGranularity(NextLine) = Len(Parse(NextLine).path)
            /\ ScanResource(NextLine) = GetResource(Parse(NextLine)))

\* What the report says: the transactions it names are those that were aborted
\* and those that have nothing in the output and are still waiting, no others.
\* Neither a restart nor a later grant brings an operation of an aborted one
\* back to the output, only aborts take operations out, and the input that the
\* report compares the output with still names everybody (get_aborted_trans).
ReportExplained ==
    stage = "exit0" /\ call.option # "-h" =>
        printed.aborted = aborted \cup (TidsOf(waiting_list) \ TidsOf(printed.result))

\* However it is called, the program ends.
Exits == <>(stage \in {"exit0", "exit1", "terminated"})
=============================================================================
