--------------------------- MODULE ContractFlags ---------------------------
(***************************************************************************)
(* The flag word of a contract: `contract::flags_', an atomic integer of   *)
(* which three bits are used.  schedule_flag and execute_flag are adjacent *)
(* on purpose: process_contract() adds one to the word, and the carry out  *)
(* of the schedule bit is what clears `scheduled' and sets `executing' in  *)
(* a single atomic step.                                                   *)
(***************************************************************************)
EXTENDS Integers

schedule_flag == 1
execute_flag  == 2
release_flag  == 4

(* The words in which no carry or borrow has left the three flags. *)
FlagWord == 0 .. 7

Has(f, flag) == (f \div flag) % 2 = 1

(* Mutant: fetch_add where the code has fetch_or. *)
Plus(f, flag) == f + flag

(* What fetch_or stores for one flag; two flags are two applications. *)
With(f, flag) == IF Has(f, flag) THEN f ELSE f + flag

(* Mutant: the caller looks at the schedule flag only. *)
NotScheduled(f) == ~Has(f, schedule_flag)

(* Neither scheduled nor executing: the caller of schedule() or release()  *)
(* that finds the word like this is the one that must raise the signal.    *)
NotScheduledNorExecuting(f) == ~Has(f, schedule_flag) /\ ~Has(f, execute_flag)

(* Scheduled and not executing: some thread owes this contract a visit. *)
Pending(f) == Has(f, schedule_flag) /\ ~Has(f, execute_flag)
=============================================================================
