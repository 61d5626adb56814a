---------------------------- MODULE ProviderHost ----------------------------
(***************************************************************************)
(* The process that holds the credentials and calls the model, and what    *)
(* the Core learns of a call (ai_provider_host/app.py, token_file.py,      *)
(* __main__.py, openai_compatible.py, and ai_provider_client.py).          *)
(*                                                                         *)
(* A host process lives once: it creates the token file, serves with an    *)
(* empty memory of identities, and stops or dies.  The file holds the name *)
(* of the process whose token it is.  The Core sends a request once; that  *)
(* the same request reaches the host again is left open, as the host does. *)
(*                                                                         *)
(* Time is counted in steps of the clock; the sender of a request may read *)
(* another clock.  What a request says is left out: a refusal that depends *)
(* on it is a choice.  A definition named after the one that follows it is *)
(* a faulty variant.                                                       *)
(***************************************************************************)
EXTENDS Integers, FiniteSets

CONSTANTS
  Requests,     \* calls of the model, by their attempt
  Probes,       \* health, capabilities and availability requests
  Hosts,        \* host processes
  Capacity,     \* replay_cache_size
  Skew,         \* timestamp_skew_seconds
  Drift,        \* bound: how far the clock of a sender is off
  Horizon,      \* bound: the last time
  Nothing       \* no token

ASSUME HostAssumption ==
  /\ Capacity \in Nat /\ Skew \in Nat /\ Drift \in Nat /\ Horizon \in Nat
  /\ Nothing \notin Hosts

VARIABLES
  now,
  process,      \* each host: "new", "created", "serving", "stopping" or "ended"
  file,         \* HostTokenFile: Nothing, the host whose token it holds, or "partial"
  entries,      \* ReplayCache.entries of the host that serves: identities and their expiry
  running,      \* calls the provider is executing
  executions,   \* how often each request was given to the provider
  stamp,        \* timestamp_utc of the requests that were built
  known,        \* what the Core knows of each: "new", "built", "sent" and an outcome
  token,        \* the token each was sent with
  claimed       \* whether what the Core sent itself got past the claim

hostVars == <<process, file, entries, running, executions>>
coreVars == <<stamp, known, token, claimed>>
systemVars == <<now, hostVars, coreVars>>

Outcomes == {"ok", "failed", "unknown"}
Identities == Requests \cup Probes

-----------------------------------------------------------------------------
HostInit == /\ now = 0
            /\ process = [h \in Hosts |-> "new"]
            /\ file = Nothing /\ entries = [i \in {} |-> 0]
            /\ running = {} /\ executions = [r \in Requests |-> 0]
            /\ stamp = [r \in Requests |-> 0]
            /\ known = [r \in Requests |-> "new"]
            /\ token = [r \in Requests |-> Nothing]
            /\ claimed = [r \in Requests |-> FALSE]

Tick == /\ now < Horizon /\ now' = now + 1
        /\ UNCHANGED <<hostVars, coreVars>>

Becomes(h, state) == process' = [process EXCEPT ![h] = state]
Learns(r, outcome) == known' = [known EXCEPT ![r] = outcome]
Hears(r, outcome) == IF known[r] = "sent" THEN Learns(r, outcome) ELSE UNCHANGED known

-----------------------------------------------------------------------------
(* The life of a host. *)

\* The file is created exclusively.  A start that fails later removes it when
\* it holds its own token: one that was interrupted while it wrote leaves it.
CreatableAlways == TRUE
Creatable == file = Nothing

CreateToken(h) ==
  /\ process[h] = "new" /\ Creatable
  /\ \/ Becomes(h, "created") /\ file' = h
     \/ Becomes(h, "ended") /\ file' \in {Nothing, "partial"}
  /\ UNCHANGED <<now, entries, running, executions, coreVars>>

\* Another process may hold the port.
Serve(h) ==
  /\ process[h] = "created"
  /\ IF \E other \in Hosts : process[other] = "serving"
     THEN Becomes(h, "stopping") /\ UNCHANGED entries
     ELSE Becomes(h, "serving") /\ entries' = [i \in {} |-> 0]
  /\ UNCHANGED <<now, file, running, executions, coreVars>>

\* The server waits for its calls; then close removes the file, if it is its own.
StopHost(h) == /\ process[h] = "serving" /\ Becomes(h, "stopping")
               /\ UNCHANGED <<now, file, entries, running, executions, coreVars>>

CallsOf(h) == {c \in running : c.host = h}

Close(h) == /\ process[h] = "stopping" /\ CallsOf(h) = {}
            /\ Becomes(h, "ended")
            /\ file' = IF file = h THEN Nothing ELSE file
            /\ UNCHANGED <<now, entries, running, executions, coreVars>>

KillHost(h) == /\ process[h] \in {"created", "serving", "stopping"}
              /\ Becomes(h, "ended")
              /\ running' = running \ CallsOf(h)
              /\ UNCHANGED <<now, file, entries, executions, coreVars>>

\* The user removes a file that no process owns.
RemoveFile == /\ file # Nothing
              /\ \A h \in Hosts : process[h] \in {"new", "ended"}
              /\ file' = Nothing
              /\ UNCHANGED <<now, process, entries, running, executions, coreVars>>

-----------------------------------------------------------------------------
(* The memory of identities. *)

Abs(n) == IF n < 0 THEN - n ELSE n

LifetimeOnce == Skew
Lifetime == 2 * Skew

Timely(time) == Abs(now - time) <= Skew
Unexpired == [i \in {i \in DOMAIN entries : entries[i] >= now} |-> entries[i]]
Room == Cardinality(DOMAIN Unexpired) < Capacity

Claims(identity, time) ==
  Timely(time) /\ identity \notin DOMAIN Unexpired /\ Room

\* claim drops what has expired as soon as the time is right, and remembers
\* what it lets pass.
Remembered(identity, time) ==
  IF ~ Timely(time) THEN entries
  ELSE IF ~ Claims(identity, time) THEN Unexpired
  ELSE [i \in DOMAIN Unexpired \cup {identity} |->
          IF i = identity THEN now + Lifetime ELSE Unexpired[i]]

Probe(h, probe) ==
  /\ process[h] = "serving" /\ file = h
  /\ \E d \in - Drift .. Drift : entries' = Remembered(probe, now + d)
  /\ UNCHANGED <<now, process, file, running, executions, coreVars>>

-----------------------------------------------------------------------------
(* A call. *)

Build(r) == /\ known[r] = "new" /\ Learns(r, "built")
            /\ \E d \in - Drift .. Drift : stamp' = [stamp EXCEPT ![r] = now + d]
            /\ UNCHANGED <<now, hostVars, token, claimed>>

\* The client reads the file for each request.
SendRequest(r) == /\ known[r] = "built"
                  /\ IF file \in Hosts
                     THEN Learns(r, "sent") /\ token' = [token EXCEPT ![r] = file]
                     ELSE Learns(r, "failed") /\ UNCHANGED token
                  /\ UNCHANGED <<now, hostVars, stamp, claimed>>

\* Without a connection nothing was sent.
NotConnected(r) ==
  /\ known[r] = "sent" /\ ~ claimed[r]
  /\ Learns(r, "failed")
  /\ UNCHANGED <<now, hostVars, stamp, token, claimed>>

\* What the Core sent reaches the host, perhaps after the client gave up.  A
\* refusal is answered at once: before the claim, or after it by a check of the
\* request.
Arrive(h, r) ==
  /\ process[h] = "serving" /\ known[r] \in {"sent", "unknown"} /\ ~ claimed[r]
  /\ IF token[r] # h
     THEN Hears(r, "failed") /\ UNCHANGED <<entries, running, executions, claimed>>
     ELSE /\ entries' = Remembered(r, stamp[r])
          /\ IF Claims(r, stamp[r])
             THEN /\ claimed' = [claimed EXCEPT ![r] = TRUE]
                  /\ \/ Hears(r, "failed") /\ UNCHANGED <<running, executions>>
                     \/ /\ running' = running \cup {[host |-> h, request |-> r, own |-> TRUE]}
                        /\ executions' = [executions EXCEPT ![r] = @ + 1]
                        /\ UNCHANGED known
             ELSE Hears(r, "failed") /\ UNCHANGED <<running, executions, claimed>>
  /\ UNCHANGED <<now, process, file, stamp, token>>

\* The same request reaches a host once more; who sent it gets the answer.
ArriveAgain(h, r) ==
  /\ process[h] = "serving" /\ token[r] = h
  /\ entries' = Remembered(r, stamp[r])
  /\ IF Claims(r, stamp[r])
     THEN /\ running' = running \cup {[host |-> h, request |-> r, own |-> FALSE]}
          /\ executions' = [executions EXCEPT ![r] = @ + 1]
     ELSE UNCHANGED <<running, executions>>
  /\ UNCHANGED <<now, process, file, coreVars>>

\* The provider answers, refuses, or is not heard of in time: the host says
\* of which kind it was, also when it has to drop an answer that is too long.
Finish(c) ==
  /\ c \in running
  /\ running' = running \ {c}
  /\ IF c.own THEN \E outcome \in Outcomes : Hears(c.request, outcome)
     ELSE UNCHANGED known
  /\ UNCHANGED <<now, process, file, entries, executions, stamp, token, claimed>>

\* The client stops reading, or the connection breaks.
UnheardAsFailed == "failed"
Unheard == "unknown"

StopReading(r) == /\ known[r] = "sent" /\ Learns(r, Unheard)
                  /\ UNCHANGED <<now, hostVars, stamp, token, claimed>>

-----------------------------------------------------------------------------
HostNext == \/ Tick \/ RemoveFile
            \/ \E h \in Hosts : \/ CreateToken(h) \/ Serve(h) \/ StopHost(h) \/ Close(h) \/ KillHost(h)
                                \/ \E probe \in Probes : Probe(h, probe)
                                \/ \E r \in Requests : Arrive(h, r) \/ ArriveAgain(h, r)
            \/ \E r \in Requests : Build(r) \/ SendRequest(r) \/ NotConnected(r) \/ StopReading(r)
            \/ \E c \in running : Finish(c)

HostSpec == HostInit /\ [][HostNext]_systemVars

-----------------------------------------------------------------------------
HostTypeOK ==
  /\ now \in 0 .. Horizon
  /\ process \in [Hosts -> {"new", "created", "serving", "stopping", "ended"}]
  /\ file \in Hosts \cup {Nothing, "partial"}
  /\ DOMAIN entries \subseteq Identities /\ Cardinality(DOMAIN entries) <= Capacity
  /\ \A i \in DOMAIN entries : entries[i] \in 0 .. Horizon + 2 * Skew
  /\ running \subseteq [host : Hosts, request : Requests, own : BOOLEAN]
  /\ executions \in [Requests -> Nat]
  /\ stamp \in [Requests -> - Drift .. Horizon + Drift]
  /\ known \in [Requests -> {"new", "built", "sent"} \cup Outcomes]
  /\ token \in [Requests -> Hosts \cup {Nothing}]
  /\ claimed \in [Requests -> BOOLEAN]

\* A request is given to the provider at most once, however often it arrives,
\* whatever its clock said, and although a host that is started again has
\* forgotten it (ReplayCache.claim and the token of the process).
ExecutedOnce == \A r \in Requests : executions[r] <= 1

\* When the Core has an answer that is not "unknown" to a request that passed
\* the claim, the provider is not executing it any more: nothing is billed
\* behind a call the Core has settled (ai_provider_client.py, outcome_unknown).
\* A request refused before the claim has no such promise: it may be executed
\* when it arrives again.
KnownMeansOver ==
  \A r \in Requests : claimed[r] /\ known[r] \in {"ok", "failed"} =>
     \A c \in running : c.request # r

\* The token of a host that serves is the one in the file, so that the Core can
\* reach it, whatever other processes tried to start (HostTokenFile, main).
ServedTokenIsOnFile == \A h \in Hosts : process[h] = "serving" => file = h
=============================================================================
