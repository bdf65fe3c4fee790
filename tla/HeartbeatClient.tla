-------------------------- MODULE HeartbeatClient --------------------------
(***************************************************************************)
(* The heartbeat thread of a client, xheartbeat_client.  It pings the      *)
(* kernel through a REQ socket, waits for the answer or for a stop request *)
(* during m_heartbeat_timeout, sleeps and starts again.  A wait that fails *)
(* more than m_max_retry times in a row makes it report a dead kernel and  *)
(* leave.                                                                  *)
(*                                                                         *)
(* The kernel is not part of the client: it answers a ping when it likes,  *)
(* or never.                                                               *)
(***************************************************************************)
EXTENDS ControllerLink, Naturals

CONSTANTS
    MaxRetry,   \* m_max_retry
    MaxFaults   \* how many receptions throw, memory being exhausted

ASSUME RetryAssumption == MaxRetry \in Nat /\ MaxFaults \in Nat

VARIABLES
    beat,         \* where the heartbeat thread is
    ping,         \* the ping the REQ socket is busy with
    retryCount,   \* retry_count in xheartbeat_client::run
    beatStop,     \* xheartbeat_client::m_request_stop
    notified,     \* the kernel has been reported dead
    faults        \* how many receptions have thrown

beatVars == <<beat, ping, retryCount, beatStop, notified, faults>>

BeatState == {"unborn", "sending", "waiting", "sleeping", "leaving", "done", "terminated"}

\* The REQ socket may send, its ping is on its way, the answer has come back.
Ping == {"none", "sent", "echoed"}

BeatOK ==
    /\ beat \in BeatState
    /\ ping \in Ping
    /\ retryCount \in 0 .. MaxRetry
    /\ beatStop \in BOOLEAN
    /\ notified \in BOOLEAN
    /\ faults \in Nat

BeatInit ==
    /\ beat = "unborn"
    /\ ping = "none"
    /\ retryCount = 0
    /\ beatStop = FALSE
    /\ notified = FALSE
    /\ faults = 0

-----------------------------------------------------------------------------
\* A REQ socket that waits for an answer refuses to send: the exception leaves
\* the function of the thread, and the process is terminated.
SendPing ==
    /\ beat = "sending"
    /\ IF ping = "none"
       THEN beat' = "waiting" /\ ping' = "sent"
       ELSE beat' = "terminated" /\ ping' = ping
    /\ UNCHANGED <<link, retryCount, beatStop, notified, faults>>

\* wait_for_answer returns true: there was an answer, a stop request, both, or
\* nothing until the time was over.
Waited ==
    /\ beat = "waiting"
    /\ ping' = IF ping = "echoed" THEN "none" ELSE ping
    /\ IF Requested("heartbeat")
       THEN Answer("heartbeat", link["heartbeat"].body) /\ beatStop' = TRUE
       ELSE UNCHANGED <<link, beatStop>>
    /\ retryCount' = 0
    /\ beat' = "sleeping"
    /\ UNCHANGED <<notified, faults>>

\* Variant: the retries are not limited.
WaitFailedForever ==
    /\ beat = "waiting"
    /\ ping = "echoed"
    /\ faults < MaxFaults
    /\ faults' = faults + 1
    /\ ping' = "none"
    /\ retryCount' = retryCount + 1
    /\ beat' = "sleeping"
    /\ UNCHANGED <<link, beatStop, notified>>

\* It returns false when the reception of the answer throws; the stop request
\* is left for the next wait.
WaitFailed ==
    /\ beat = "waiting"
    /\ ping = "echoed"
    /\ faults < MaxFaults
    /\ faults' = faults + 1
    /\ ping' = "none"
    /\ IF retryCount < MaxRetry
       THEN retryCount' = retryCount + 1 /\ beat' = "sleeping" /\ notified' = notified
       ELSE retryCount' = retryCount /\ beat' = "leaving" /\ notified' = TRUE
    /\ UNCHANGED <<link, beatStop>>

\* The stop flag is read after the sleep.
Slept ==
    /\ beat = "sleeping"
    /\ beat' = IF beatStop THEN "leaving" ELSE "sending"
    /\ UNCHANGED <<link, ping, retryCount, beatStop, notified, faults>>

BeatLeaves ==
    /\ beat = "leaving"
    /\ beat' = "done"
    /\ UNCHANGED <<link, ping, retryCount, beatStop, notified, faults>>

BeatStep == SendPing \/ Waited \/ WaitFailed \/ Slept \/ BeatLeaves

\* The kernel, at the other end of the channel.
KernelEchoes ==
    /\ ping = "sent"
    /\ ping' = "echoed"
    /\ UNCHANGED <<link, beat, retryCount, beatStop, notified, faults>>

-----------------------------------------------------------------------------
\* The thread is there "for sending a ping message to the heartbeat every
\* 100ms" (usage.rst:70-71), whether or not the kernel answers in time.  A ping
\* that is not answered within the wait is its last: see the findings.
PingsGoOn == beat # "terminated"

=============================================================================
