--------------------------- MODULE AtomicDevices ---------------------------
(***************************************************************************)
(* What the rest of the kernel takes a request to the disk or to the       *)
(* screen to be: a call, one moment at which the device carries it out,    *)
(* well or badly, and a return that tells the caller which.  Fat32 goes    *)
(* further and joins the three in one step, as nothing else runs between.  *)
(***************************************************************************)
EXTENDS Integers

CONSTANTS Sectors, Contents, Buffers

VARIABLES
  disk,     \* what the sectors hold
  buffer,   \* what the callers' buffers hold
  call,     \* the request that has not returned, or NoCall
  outcome,  \* of that request: "none", "ok" or "error"
  result    \* what the last call returned

atomicVars == <<disk, buffer, call, outcome, result>>

NoCall == [dev |-> "none"]
Transfers == [dev : {"blk"}, op : {"read", "write"}, sector : Sectors, buf : Buffers]
Command == [dev |-> "gpu"]
Calls == Transfers \cup {Command}

\* A caller that writes has put what it writes into its buffer.
Filled(r) ==
  IF r.dev = "blk" /\ r.op = "write"
  THEN \E c \in Contents : buffer' = [buffer EXCEPT ![r.buf] = c]
  ELSE UNCHANGED buffer

Invoke(r) ==
  /\ call = NoCall
  /\ call' = r /\ outcome' = "none"
  /\ Filled(r)
  /\ UNCHANGED <<disk, result>>

\* There is no such device.
Refuse(r) ==
  /\ call = NoCall
  /\ result' = IF r.dev = "blk" THEN -1 ELSE 0
  /\ Filled(r)
  /\ UNCHANGED <<disk, call, outcome>>

\* The effect of a request.  One that fails has had it in part, or not at all.
Effect(r, o) ==
  CASE r.dev = "gpu" -> UNCHANGED <<disk, buffer>>
    [] r.dev = "blk" /\ r.op = "read" ->
         /\ \E c \in Contents :
              /\ o = "ok" => c = disk[r.sector]
              /\ buffer' = [buffer EXCEPT ![r.buf] = c]
         /\ UNCHANGED disk
    [] OTHER ->
         /\ \E c \in Contents :
              /\ o = "ok" => c = buffer[r.buf]
              /\ disk' = [disk EXCEPT ![r.sector] = c]
         /\ UNCHANGED buffer

Do ==
  /\ call # NoCall /\ outcome = "none"
  /\ outcome' \in {"ok", "error"}
  /\ Effect(call, outcome')
  /\ UNCHANGED <<call, result>>

Return ==
  /\ call # NoCall /\ outcome # "none"
  /\ result' = IF call.dev = "blk" /\ outcome # "ok" THEN -1 ELSE 0
  /\ call' = NoCall /\ outcome' = "none"
  /\ UNCHANGED <<disk, buffer>>

AtomicInit ==
  /\ disk \in [Sectors -> Contents] /\ buffer \in [Buffers -> Contents]
  /\ call = NoCall /\ outcome = "none" /\ result = 0

AtomicNext == (\E r \in Calls : Invoke(r) \/ Refuse(r)) \/ Do \/ Return
AtomicSpec == AtomicInit /\ [][AtomicNext]_atomicVars
=============================================================================
