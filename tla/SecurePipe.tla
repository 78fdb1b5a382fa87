------------------------------ MODULE SecurePipe ------------------------------
(***************************************************************************)
(* SecureNamedPipeServer.serve_one over NativeWindowsPipeApi: one session  *)
(* on a private named pipe.  A frame is read, its sender is impersonated   *)
(* to learn who sent it, the processor runs, and everything acquired is    *)
(* given back.  Threads of the kernel's process and of another serve in    *)
(* turn, the same pipe name; every call of Windows may fail.  The pipe     *)
(* itself and its clients are external.                                    *)
(***************************************************************************)
CONSTANTS
    Servers,        \* threads that call serve_one
    Clients,
    KernelSid, WorkerSid,   \* the configuration
    ProcessSid,     \* the SID of each server's process
    ClientSid,      \* the SID of each client
    Nobody

ASSUME SidsAssumption ==
    /\ KernelSid # WorkerSid        \* validate_runtime_private_pipe_config
    /\ Nobody \notin Servers \cup Clients

VARIABLES
    pc,
    held,       \* what each server has acquired and not given back
    thread,     \* the client that a server's thread impersonates, or Nobody
    frame,      \* the client whose frame has been read
    caller,     \* the SID it was found to have
    result,     \* what the session will end with
    pipe        \* the one instance: its server and its client, whether the client's
                \* frame waits to be read, and whether the client has gone

pipeVars == <<pc, held, thread, frame, caller, result, pipe>>

NoPipe == [server |-> Nobody, client |-> Nobody, sent |-> FALSE, gone |-> FALSE]

-----------------------------------------------------------------------------
PipeInit ==
    /\ pc = [s \in Servers |-> "idle"]
    /\ held = [s \in Servers |-> {}]
    /\ thread = [s \in Servers |-> Nobody]
    /\ frame = [s \in Servers |-> Nobody]
    /\ caller = [s \in Servers |-> Nobody]
    /\ result = [s \in Servers |-> "none"]
    /\ pipe = NoPipe

Goto(s, l) == pc' = [pc EXCEPT ![s] = l]

Acquire(s, r) == held' = [held EXCEPT ![s] = @ \cup {r}]

Release(s, r) == held' = [held EXCEPT ![s] = @ \ {r}]

(* The session is over before anything was acquired. *)
RaiseAtOnce(s) ==
    /\ pc[s] = "idle"
    /\ result' = [result EXCEPT ![s] = "raised"]
    /\ UNCHANGED <<pc, held, thread, frame, caller, pipe>>

(* current_process_sid asks for the token of the process, not the thread's *)
(* and gives it back whether or not it tells the SID.                      *)
Begin(s) ==
    /\ pc[s] = "idle"
    /\ ProcessSid[s] = KernelSid
    /\ Acquire(s, "descriptor")
    /\ Goto(s, "create")
    /\ frame' = [frame EXCEPT ![s] = Nobody]
    /\ caller' = [caller EXCEPT ![s] = Nobody]
    /\ result' = [result EXCEPT ![s] = "none"]
    /\ UNCHANGED <<thread, pipe>>

(* FILE_FLAG_FIRST_PIPE_INSTANCE: nobody else has an instance.  The DACL   *)
(* does not let the worker create one, which is what a thread does that    *)
(* is still impersonating it.                                              *)
Create(s) ==
    /\ pc[s] = "create"
    /\ pipe.server = Nobody
    /\ thread[s] # Nobody => ClientSid[thread[s]] # WorkerSid
    /\ pipe' = [NoPipe EXCEPT !.server = s]
    /\ Acquire(s, "handle")
    /\ Goto(s, "connect")
    /\ UNCHANGED <<thread, frame, caller, result>>

Connect(s) ==
    /\ pc[s] = "connect"
    /\ pipe.client # Nobody
    /\ Acquire(s, "connection")
    /\ Goto(s, "read")
    /\ UNCHANGED <<thread, frame, caller, result, pipe>>

Read(s) ==
    /\ pc[s] = "read"
    /\ pipe.sent
    /\ frame' = [frame EXCEPT ![s] = pipe.client]
    /\ pipe' = [pipe EXCEPT !.sent = FALSE]
    /\ Goto(s, "impersonate")
    /\ UNCHANGED <<held, thread, caller, result>>

Impersonate(s) ==
    /\ pc[s] = "impersonate"
    /\ thread' = [thread EXCEPT ![s] = pipe.client]
    /\ Goto(s, "open")
    /\ UNCHANGED <<held, frame, caller, result, pipe>>

OpenToken(s) ==
    /\ pc[s] = "open"
    /\ Acquire(s, "token")
    /\ Goto(s, "sid")
    /\ UNCHANGED <<thread, frame, caller, result, pipe>>

ReadSid(s) ==
    /\ pc[s] = "sid"
    /\ caller' = [caller EXCEPT ![s] = ClientSid[thread[s]]]
    /\ Goto(s, "token")
    /\ UNCHANGED <<held, thread, frame, result, pipe>>

CloseToken(s) ==
    /\ pc[s] = "token"
    /\ Release(s, "token")
    /\ Goto(s, "revert")
    /\ UNCHANGED <<thread, frame, caller, result, pipe>>

(* An exception of the try block is raised again after the finally block. *)
AfterRevert(s) ==
    CASE result[s] = "raised"        -> "disconnect"
      [] caller[s] # WorkerSid       -> "deny"
      [] OTHER                       -> "process"

(* Fault: nobody looks at what RevertToSelf returns. *)
RevertUnchecked(s) ==
    /\ pc[s] = "revert"
    /\ thread' \in {thread, [thread EXCEPT ![s] = Nobody]}
    /\ Goto(s, AfterRevert(s))
    /\ UNCHANGED <<held, frame, caller, result, pipe>>

Revert(s) ==
    /\ pc[s] = "revert"
    /\ thread' = [thread EXCEPT ![s] = Nobody]
    /\ Goto(s, AfterRevert(s))
    /\ UNCHANGED <<held, frame, caller, result, pipe>>

DenyIdentity(s) ==
    /\ pc[s] = "deny"
    /\ result' = [result EXCEPT ![s] = "identity_denied"]
    /\ Goto(s, "disconnect")
    /\ UNCHANGED <<held, thread, frame, caller, pipe>>

Process(s) ==
    /\ pc[s] = "process"
    /\ Goto(s, "write")
    /\ UNCHANGED <<held, thread, frame, caller, result, pipe>>

Write(s) ==
    /\ pc[s] = "write"
    /\ ~pipe.gone
    /\ result' = [result EXCEPT ![s] = "served"]
    /\ Goto(s, "disconnect")
    /\ UNCHANGED <<held, thread, frame, caller, pipe>>

(* A call of Windows fails, a frame has a length that is refused, the      *)
(* client is gone, the processor raises or answers too much.               *)
Raise(s) ==
    /\ pc[s] \in {"create", "connect", "read", "impersonate", "open", "sid", "revert",
                  "process", "write"}
    /\ result' = [result EXCEPT ![s] = "raised"]
    /\ Goto(s, CASE pc[s] = "open" -> "revert"
                 [] pc[s] = "sid"  -> "token"
                 [] OTHER          -> "disconnect")
    /\ UNCHANGED <<held, thread, frame, caller, pipe>>

-----------------------------------------------------------------------------
(* The finally block.  Nobody of these three calls raises. *)

Disconnect(s) ==
    /\ pc[s] = "disconnect"
    /\ Release(s, "connection")
    /\ pipe' = IF "connection" \in held[s] THEN [NoPipe EXCEPT !.server = s] ELSE pipe
    /\ Goto(s, "close")
    /\ UNCHANGED <<thread, frame, caller, result>>

(* Fault: the handle is closed only when a client had been served. *)
CloseConnected(s) ==
    /\ pc[s] = "close"
    /\ IF frame[s] # Nobody
         THEN Release(s, "handle") /\ pipe' = NoPipe
         ELSE UNCHANGED <<held, pipe>>
    /\ Goto(s, "free")
    /\ UNCHANGED <<thread, frame, caller, result>>

Close(s) ==
    /\ pc[s] = "close"
    /\ Release(s, "handle")
    /\ pipe' = IF "handle" \in held[s] THEN NoPipe ELSE pipe
    /\ Goto(s, "free")
    /\ UNCHANGED <<thread, frame, caller, result>>

Free(s) ==
    /\ pc[s] = "free"
    /\ Release(s, "descriptor")
    /\ Goto(s, "idle")
    /\ UNCHANGED <<thread, frame, caller, result, pipe>>

-----------------------------------------------------------------------------
(* The clients.  The instance takes one client until it is disconnected. *)

Open(c) ==
    /\ pipe.server # Nobody /\ pipe.client = Nobody
    /\ pipe' = [pipe EXCEPT !.client = c]
    /\ UNCHANGED <<pc, held, thread, frame, caller, result>>

Send ==
    /\ pipe.client # Nobody /\ ~pipe.sent /\ ~pipe.gone
    /\ pipe' = [pipe EXCEPT !.sent = TRUE]
    /\ UNCHANGED <<pc, held, thread, frame, caller, result>>

Hangup ==
    /\ pipe.client # Nobody /\ ~pipe.gone
    /\ pipe' = [pipe EXCEPT !.gone = TRUE]
    /\ UNCHANGED <<pc, held, thread, frame, caller, result>>

ServeOne(s) ==
    \/ RaiseAtOnce(s)
    \/ Begin(s)
    \/ Create(s)
    \/ Connect(s)
    \/ Read(s)
    \/ Impersonate(s)
    \/ OpenToken(s)
    \/ ReadSid(s)
    \/ CloseToken(s)
    \/ Revert(s)
    \/ DenyIdentity(s)
    \/ Process(s)
    \/ Write(s)
    \/ Raise(s)
    \/ Disconnect(s)
    \/ Close(s)
    \/ Free(s)

PipeNext ==
    \/ \E s \in Servers : ServeOne(s)
    \/ \E c \in Clients : Open(c)
    \/ Send
    \/ Hangup

PipeSpec == PipeInit /\ [][PipeNext]_pipeVars

-----------------------------------------------------------------------------
(* A session that is over holds nothing, whatever failed on the way, and   *)
(* everything is given back exactly by who acquired it: an open instance   *)
(* belongs to a running session, so that a pipe name is never blocked.     *)
EverythingReleased ==
    /\ \A s \in Servers : pc[s] = "idle" => held[s] = {}
    /\ pipe.server # Nobody => "handle" \in held[pipe.server]

(* The processor runs on a frame of the worker, as the kernel and not as   *)
(* the client it impersonated a moment ago or in a session before, and its *)
(* answer goes to the client that wrote the frame.                         *)
ProcessorServesTheWorker ==
    \A s \in Servers : pc[s] \in {"process", "write"} =>
        /\ thread[s] = Nobody
        /\ pipe.server = s /\ pipe.client = frame[s]
        /\ ClientSid[frame[s]] = WorkerSid

=============================================================================
