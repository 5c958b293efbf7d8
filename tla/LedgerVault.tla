---------------------------- MODULE LedgerVault ----------------------------
(***************************************************************************)
(* What the sovereign memory promises about receipts, without the ring:    *)
(* events are logged in some order, and LEDGER.LOG receives a record of a  *)
(* receipt (a LEDGER_COMMIT event) at most once, in the order in which the *)
(* receipts were logged.  Nothing is promised about receipts that are      *)
(* never written.  A power loss forgets the events, never the file.        *)
(***************************************************************************)
EXTENDS Integers, Sequences

VARIABLES
  logged,   \* types of the events logged since the machine was started
  ledger,   \* what was appended to LEDGER.LOG: records and line ends
  boots     \* number of restarts so far

vaultVars == <<logged, ledger, boots>>

EventTypes == {"KEYSTROKE", "FS_READ", "FS_WRITE", "PROC_SPAWN", "LEDGER_COMMIT"}

\* A line of the file is the record of one receipt followed by a line end.
Receipt(t) == [boot |-> boots, stamp |-> t]
LineEnd == [boot |-> 0, stamp |-> 0]

VaultInit == logged = <<>> /\ ledger = <<>> /\ boots = 0

Log ==
  /\ \E type \in EventTypes : logged' = Append(logged, type)
  /\ UNCHANGED <<ledger, boots>>

\* A receipt may be recorded if it is younger than every recorded one.
Record(t) ==
  /\ logged[t] = "LEDGER_COMMIT"
  /\ \A i \in 1..Len(ledger) : ledger[i].boot = boots => ledger[i].stamp < t
  /\ ledger' = Append(ledger, Receipt(t))
  /\ UNCHANGED <<logged, boots>>

EndLine ==
  /\ ledger' = Append(ledger, LineEnd)
  /\ UNCHANGED <<logged, boots>>

Restart ==
  /\ logged' = <<>>
  /\ boots' = boots + 1
  /\ UNCHANGED ledger

VaultNext == Log \/ (\E t \in 1..Len(logged) : Record(t)) \/ EndLine \/ Restart

VaultSpec == VaultInit /\ [][VaultNext]_vaultVars
=============================================================================
