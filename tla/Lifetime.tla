------------------------------ MODULE Lifetime ------------------------------
(***************************************************************************)
(* The lifetime supervisor of a local plugin runtime composed with the     *)
(* goroutine of InstallToLocal that waits for it.                           *)
(*                                                                         *)
(*   src/internal/core/plugin_manager/lifetime.go  fullDuplexLifecycle      *)
(*   src/internal/core/plugin_manager/install_to_local.go  InstallToLocal   *)
(*                                                                         *)
(* Three actors share state: the supervisor goroutine (sup), the installer *)
(* goroutine (inst) whose `select` watches the ticker, the 240 s timer,    *)
(* errChan and launchedChan, and the plugin process itself, which may exit *)
(* at any time.  errChan is a Go channel of capacity errCap: the           *)
(* channel is made in launchLocal, which is not part of this source tree,  *)
(* so its capacity errCap is fixed at Init from the set ErrChanCaps: one   *)
(* run checks an unbuffered and a buffered build side by side.            *)
(***************************************************************************)
EXTENDS Naturals, Sequences, SequencesExt

CONSTANTS
    ErrChanCaps,       \* capacities errChan may be made with (0 = unbuffered)
    MaxInitFailures,   \* bound on failed InitEnvironment calls
    MaxRestarts,       \* bound on process exits and start errors
    MaxTicks           \* bound on "Installing" heartbeats of the installer

ASSUME ErrChanCaps \subseteq Nat /\ MaxInitFailures \in Nat
ASSUME MaxRestarts \in Nat /\ MaxTicks \in Nat

VARIABLES
    errCap,          \* capacity of this runtime's errChan (never changes)
    sup,             \* program counter of fullDuplexLifecycle
    failedTimes,     \* local failedTimes of fullDuplexLifecycle
    onceDone,        \* the sync.Once guarding the launched/err notification
    errBuf,          \* values buffered in errChan
    errClosed,       \* close(errChan) has happened
    launchedClosed,  \* close(launchedChan) has happened
    stopped,         \* r.Stopped()
    procRunning,     \* the plugin subprocess is alive
    restarts,        \* r.AddRestarts() count
    cleaned,         \* the deferred TriggerStop/Stop/Cleanup have run
    envReady,        \* history: some InitEnvironment call has succeeded
    inst,            \* where InstallToLocal (and then its goroutine) is
    saved,           \* the installed bucket holds the package
    response         \* events written to the install response stream

vars == <<errCap, sup, failedTimes, onceDone, errBuf, errClosed, launchedClosed,
          stopped, procRunning, restarts, cleaned, envReady, inst, saved,
          response>>

\* Everything but the installer's program counter and the bucket.
supVars == <<sup, failedTimes, onceDone, errBuf, errClosed, launchedClosed,
             stopped, procRunning, restarts, cleaned, envReady, response>>

SupPC == {"register", "loop", "sendErr", "closeChans", "init", "notify",
          "runLoop", "start", "wait", "exit", "exited"}

\* Kinds of PluginInstallResponse events (Event and Data abstracted).
Events == {"Installing", "Timeout", "Error", "Installed"}

\* The only value ever sent on errChan: "init environment ... failed too
\* many times".
InitFailedErr == "InitFailedErr"

TypeOK ==
    /\ errCap \in ErrChanCaps
    /\ sup \in SupPC
    /\ failedTimes \in 0..MaxInitFailures
    /\ onceDone \in BOOLEAN
    /\ errBuf \in Seq({InitFailedErr}) /\ Len(errBuf) <= errCap
    /\ errClosed \in BOOLEAN /\ launchedClosed \in BOOLEAN
    /\ stopped \in BOOLEAN /\ procRunning \in BOOLEAN
    /\ restarts \in 0..(MaxRestarts + 1)
    /\ cleaned \in BOOLEAN /\ envReady \in BOOLEAN
    /\ inst \in {"get", "save", "launch", "failed", "select", "done"}
    /\ saved \in BOOLEAN
    /\ response \in Seq(Events)

Init ==
    /\ errCap \in ErrChanCaps
    /\ sup = "register"
    /\ failedTimes = 0
    /\ onceDone = FALSE
    /\ errBuf = <<>>
    /\ errClosed = FALSE /\ launchedClosed = FALSE
    /\ stopped = FALSE /\ procRunning = FALSE
    /\ restarts = 0
    /\ cleaned = FALSE /\ envReady = FALSE
    /\ inst = "get"
    /\ saved = FALSE
    /\ response = <<>>

-----------------------------------------------------------------------------
(* The local runtime's Stop, which is not in this source tree; as the     *)
(* design describes it, it sets the stopped flag, closes the transport and *)
(* unblocks blocked I/O, so the subprocess running at that moment ends.    *)

Stop ==
    /\ stopped' = TRUE
    /\ procRunning' = FALSE

\* launchLocal has returned the runtime and its channels: the supervisor
\* runs from then on.
Launched == inst \in {"select", "done"}

-----------------------------------------------------------------------------
(* Supervisor: fullDuplexLifecycle.                                        *)

\* The pluginRegisters loop; a failing handler returns at once, running only
\* the deferred Stop and Cleanup (TriggerStop is deferred after the loop).
Register ==
    /\ sup = "register"
    /\ Launched
    /\ \/ /\ sup' = "loop"
          /\ UNCHANGED <<stopped, procRunning, cleaned>>
       \/ /\ sup' = "exited"
          /\ Stop
          /\ cleaned' = TRUE
    /\ UNCHANGED <<failedTimes, onceDone, errBuf, errClosed, launchedClosed,
                   restarts, envReady, inst, response>>

\* Head of `for !r.Stopped()`; after more than 3 failures the once.Do that
\* publishes the error is entered.
\* Mutant: the first once.Do closes launchedChan before sending the error.
LoopTopClosesLaunchedFirst ==
    /\ sup = "loop"
    /\ sup' = CASE stopped                          -> "notify"
                [] failedTimes > 3 /\ ~onceDone     -> "sendErr"
                [] OTHER                            -> "init"
    /\ onceDone' = (onceDone \/ (~stopped /\ failedTimes > 3))
    /\ launchedClosed' = (launchedClosed \/ (~stopped /\ failedTimes > 3))
    /\ UNCHANGED <<failedTimes, errBuf, errClosed, stopped,
                   procRunning, restarts, cleaned, envReady, inst, response>>

LoopTop ==
    /\ sup = "loop"
    /\ sup' = CASE stopped                          -> "notify"
                [] failedTimes > 3 /\ ~onceDone     -> "sendErr"
                [] OTHER                            -> "init"
    /\ onceDone' = (onceDone \/ (~stopped /\ failedTimes > 3))
    /\ UNCHANGED <<failedTimes, errBuf, errClosed, launchedClosed, stopped,
                   procRunning, restarts, cleaned, envReady, inst, response>>

\* errChan <- err, into the buffer when there is room.  With no room the
\* send blocks until the installer receives it (InstallerRecvErr).
SendErr ==
    /\ sup = "sendErr"
    /\ Len(errBuf) < errCap
    /\ errBuf' = Append(errBuf, InitFailedErr)
    /\ sup' = "closeChans"
    /\ UNCHANGED <<failedTimes, onceDone, errClosed, launchedClosed, stopped,
                   procRunning, restarts, cleaned, envReady, inst, response>>

\* close(errChan); close(launchedChan) at the end of the once.Do body.
CloseChans ==
    /\ sup = "closeChans"
    /\ errClosed' = TRUE /\ launchedClosed' = TRUE
    /\ sup' = "init"
    /\ UNCHANGED <<failedTimes, onceDone, errBuf, stopped, procRunning,
                   restarts, cleaned, envReady, inst, response>>

\* r.InitEnvironment(): success breaks out of the loop; a failure breaks
\* out when the runtime was stopped meanwhile, else counts and retries.
InitEnvironment ==
    /\ sup = "init"
    /\ \/ /\ envReady' = TRUE
          /\ sup' = "notify"
          /\ UNCHANGED failedTimes
       \/ /\ failedTimes < MaxInitFailures
          /\ UNCHANGED envReady
          /\ IF stopped THEN sup' = "notify" /\ UNCHANGED failedTimes
                        ELSE sup' = "loop" /\ failedTimes' = failedTimes + 1
    /\ UNCHANGED <<onceDone, errBuf, errClosed, launchedClosed, stopped,
                   procRunning, restarts, cleaned, inst, response>>

\* The second once.Do: close(launchedChan); close(errChan).
NotifyLaunched ==
    /\ sup = "notify"
    /\ onceDone' = TRUE
    /\ launchedClosed' = (launchedClosed \/ ~onceDone)
    /\ errClosed' = (errClosed \/ ~onceDone)
    /\ sup' = "runLoop"
    /\ UNCHANGED <<failedTimes, errBuf, stopped, procRunning, restarts,
                   cleaned, envReady, inst, response>>

\* Mutant: the restart loop's head does not look at Stopped().
RunLoopTopIgnoresStop ==
    /\ sup = "runLoop"
    /\ sup' = "start"
    /\ UNCHANGED <<failedTimes, onceDone, errBuf, errClosed, launchedClosed,
                   stopped, procRunning, restarts, cleaned, envReady, inst,
                   response>>

\* Head of the restart loop `for !r.Stopped()`.
RunLoopTop ==
    /\ sup = "runLoop"
    /\ sup' = IF stopped THEN "exit" ELSE "start"
    /\ UNCHANGED <<failedTimes, onceDone, errBuf, errClosed, launchedClosed,
                   stopped, procRunning, restarts, cleaned, envReady, inst,
                   response>>

\* r.StartPlugin(): either the process is up, or an error, after which the
\* loop breaks if the runtime was stopped and otherwise goes on to Wait.
\* Nothing re-checks Stopped() between the loop head and the start, so a
\* Stop in between does not prevent the process from being started.
StartPlugin ==
    /\ sup = "start"
    /\ \/ /\ procRunning' = TRUE
          /\ sup' = "wait"
       \/ /\ restarts < MaxRestarts \/ stopped
          /\ sup' = IF stopped THEN "exit" ELSE "wait"
          /\ UNCHANGED procRunning
    /\ UNCHANGED <<failedTimes, onceDone, errBuf, errClosed, launchedClosed,
                   stopped, restarts, cleaned, envReady, inst, response>>

\* c, err := r.Wait(); <-c returns once the process is gone; then, after
\* the 5 s sleep, r.AddRestarts().
\* Mutant: AddRestarts counts every restart twice.
WaitAndRestartTwice ==
    /\ sup = "wait"
    /\ ~procRunning
    /\ restarts < MaxRestarts \/ stopped
    /\ restarts' = restarts + 2
    /\ sup' = "runLoop"
    /\ UNCHANGED <<failedTimes, onceDone, errBuf, errClosed, launchedClosed,
                   stopped, procRunning, cleaned, envReady, inst, response>>

WaitAndRestart ==
    /\ sup = "wait"
    /\ ~procRunning
    /\ restarts < MaxRestarts \/ stopped
    /\ restarts' = restarts + 1
    /\ sup' = "runLoop"
    /\ UNCHANGED <<failedTimes, onceDone, errBuf, errClosed, launchedClosed,
                   stopped, procRunning, cleaned, envReady, inst, response>>

\* The deferred r.TriggerStop(), r.Stop() and r.Cleanup().
Exit ==
    /\ sup = "exit"
    /\ sup' = "exited"
    /\ Stop
    /\ cleaned' = TRUE
    /\ UNCHANGED <<failedTimes, onceDone, errBuf, errClosed, launchedClosed,
                   restarts, envReady, inst, response>>

\* The plugin subprocess exits on its own (crash or normal exit).
ProcessExit ==
    /\ procRunning
    /\ restarts < MaxRestarts
    /\ procRunning' = FALSE
    /\ UNCHANGED <<sup, failedTimes, onceDone, errBuf, errClosed,
                   launchedClosed, stopped, restarts, cleaned, envReady, inst,
                   response>>

-----------------------------------------------------------------------------
(* InstallToLocal before its goroutine: each call returns its error at     *)
(* once, leaving what the earlier calls did in place.                      *)

\* p.packageBucket.Get.
PackageGet ==
    /\ inst = "get"
    /\ inst' \in {"save", "failed"}
    /\ UNCHANGED <<supVars, saved>>

\* p.installedBucket.Save: fails, or the package is in the installed bucket.
SaveInstalled ==
    /\ inst = "save"
    /\ \/ inst' = "failed" /\ UNCHANGED saved
       \/ inst' = "launch" /\ saved' = TRUE
    /\ UNCHANGED supVars

\* p.launchLocal: an error returns (the saved package stays); otherwise the
\* supervisor is started and the goroutine below submitted.
LaunchLocal ==
    /\ inst = "launch"
    /\ inst' \in {"failed", "select"}
    /\ UNCHANGED <<supVars, saved>>

-----------------------------------------------------------------------------
(* Installer: the goroutine submitted by InstallToLocal.  Each action is   *)
(* one case of its `select`; Go picks any ready case.                      *)

\* case <-ticker.C: write an "Installing" heartbeat.
InstallerTick ==
    /\ inst = "select"
    /\ Len(response) < MaxTicks
    /\ response' = Append(response, "Installing")
    /\ UNCHANGED <<sup, failedTimes, onceDone, errBuf, errClosed,
                   launchedClosed, stopped, procRunning, restarts, cleaned,
                   envReady, inst>>

\* case <-timer.C: the 240 s timer; init attempts take unbounded time, so
\* it may fire at any point of the supervisor's progress.
InstallerTimeout ==
    /\ inst = "select"
    /\ response' = Append(response, "Timeout")
    /\ Stop
    /\ inst' = "done"
    /\ UNCHANGED <<sup, failedTimes, onceDone, errBuf, errClosed,
                   launchedClosed, restarts, cleaned, envReady>>

\* case err := <-errChan with err != nil: from the buffer, or directly from
\* a supervisor blocked in the send when the buffer has no room.
InstallerRecvErr ==
    /\ inst = "select"
    /\ \/ /\ errBuf /= <<>>
          /\ errBuf' = Tail(errBuf)
          /\ UNCHANGED sup
       \/ /\ sup = "sendErr" /\ errCap = 0
          /\ sup' = "closeChans"
          /\ UNCHANGED errBuf
    /\ response' = Append(response, "Error")
    /\ Stop
    /\ inst' = "done"
    /\ UNCHANGED <<failedTimes, onceDone, errClosed, launchedClosed,
                   restarts, cleaned, envReady>>

\* case <-launchedChan: report success.
InstallerLaunched ==
    /\ inst = "select"
    /\ launchedClosed
    /\ response' = Append(response, "Installed")
    /\ inst' = "done"
    /\ UNCHANGED <<sup, failedTimes, onceDone, errBuf, errClosed,
                   launchedClosed, stopped, procRunning, restarts, cleaned,
                   envReady>>

-----------------------------------------------------------------------------

SupervisorStep ==
    /\ \/ Register \/ LoopTop \/ SendErr \/ CloseChans \/ InitEnvironment
       \/ NotifyLaunched \/ RunLoopTop \/ StartPlugin \/ WaitAndRestart \/ Exit
    /\ UNCHANGED <<errCap, saved>>

InstallerStep ==
    \/ (PackageGet \/ SaveInstalled \/ LaunchLocal) /\ UNCHANGED errCap
    \/ /\ InstallerTick \/ InstallerTimeout \/ InstallerRecvErr \/ InstallerLaunched
       /\ UNCHANGED <<errCap, saved>>

\* Nothing is left to do: InstallToLocal returned an error before launching,
\* or the installer has answered and the supervisor has exited or is
\* waiting on a process that keeps running.
Quiescent ==
    /\ \/ inst = "failed"
       \/ /\ inst = "done"
          /\ \/ sup = "exited"
             \/ sup = "wait" /\ procRunning
    /\ UNCHANGED vars

Next == SupervisorStep \/ InstallerStep \/ (ProcessExit /\ UNCHANGED <<errCap, saved>>)
        \/ Quiescent

\* Both goroutines run on the routine pool and are scheduled; the process
\* and the environment get no fairness.
Spec == Init /\ [][Next]_vars
            /\ WF_vars(SupervisorStep) /\ WF_vars(InstallerStep)

-----------------------------------------------------------------------------
(* Properties                                                              *)

\* InstallToLocal reports "Installed" only for a plugin whose
\* InitEnvironment has succeeded: after four failed inits the supervisor
\* publishes the error on errChan and closes launchedChan, and the
\* installer's select must not take the launchedChan case instead.
InstallReportMatchesInit ==
    Contains(response, "Installed") => envReady

\* The supervisor has not yet passed the head of its restart loop: it is
\* registering, in the init-retry loop, or about to test Stopped() at the
\* restart loop's head.
BeforeRestartLoop ==
    sup \in {"register", "loop", "sendErr", "closeChans", "init", "notify",
            "runLoop"}

\* A runtime stopped by the installer (on its error or its 240 s timeout)
\* while the supervisor is still registering or retrying InitEnvironment is
\* eventually cleaned up: the init loop and the restart loop both notice
\* Stopped() and leave through the deferred TriggerStop/Stop/Cleanup.  A
\* stop after the restart loop's head is left out: StartPlugin then starts
\* a process regardless (lifetime.go:96-98).
InitStopLeadsToCleanup == (stopped /\ BeforeRestartLoop) ~> cleaned

\* With an unbuffered errChan, InstallToLocal's report matches the outcome
\* of InitEnvironment: the supervisor's send blocks until the installer's
\* select has taken the errChan case, so launchedChan is not yet closed.
UnbufferedReportMatchesInit == errCap = 0 => InstallReportMatchesInit

\* With a buffered errChan the supervisor never blocks in its error send,
\* so a runtime stopped during registration or init is always cleaned up.
BufferedInitStopLeadsToCleanup == errCap > 0 => InitStopLeadsToCleanup

=============================================================================
