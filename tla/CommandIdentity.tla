--------------------------- MODULE CommandIdentity ---------------------------
(***************************************************************************)
(* LocalCommandSpec.snapshot and canonical_command_spec_bytes               *)
(* (buildbot/umbilical_local_execution.py): callers that freeze a command  *)
(* and take its canonical bytes, one after the other.  SHA-256 stands for  *)
(* the bytes one to one.  An environment is given as a mapping, that is a  *)
(* sequence of its items in the order the caller inserted them.            *)
(***************************************************************************)
EXTENDS CanonicalFraming, SequencesExt

CONSTANTS
  Executable, Argument, Directory, Name, Value,  \* texts
  MaxArguments,  \* bound on the length of argv
  MaxEntries,    \* bound on the size of the environment
  Timeout,
  CommandDomain, \* _COMMAND_SPEC_DOMAIN
  Label(_)       \* the ASCII name of a field

CommandField == {"executable", "argv", "working_directory", "environment", "timeout_seconds"}

ASSUME CommandAssumption ==
  /\ Byte \subseteq Nat
  /\ Timeout \subseteq 1..MaxBytes
  /\ MaxArguments \in 1..MaxBytes /\ MaxEntries \in 0..MaxBytes
  /\ CommandDomain \in Seq(Byte)
  /\ \A x \in UNION {Executable, Argument, Directory, Name, Value} : x \in Seq(Byte) /\ Len(x) <= MaxBytes
  /\ \A f \in CommandField : Label(f) \in Seq(Byte) /\ Len(Label(f)) <= MaxBytes

Mapping == {m \in UNION {[1..n -> Name \X Value] : n \in 0..MaxEntries} :
              \A i, j \in DOMAIN m : m[i][1] = m[j][1] => i = j}

Request == [executable : Executable,
            argv       : UNION {[1..n -> Argument] : n \in 1..MaxArguments},
            directory  : Directory,
            environment : Mapping,
            timeout    : Timeout]

VARIABLES
  request,  \* the command of the latest call
  bytes     \* its canonical bytes

commandVars == <<request, bytes>>

\* The order of Python's bytes objects.
ByteOrder(a, b) == \E i \in 1..Len(b) :
  /\ \A j \in 1..(i - 1) : j <= Len(a) /\ a[j] = b[j]
  /\ i <= Len(a) => a[i] < b[i]

\* snapshot: the environment is frozen sorted by the bytes of its names.
InCallerOrder(mapping) == mapping  \* a variant: frozen as it was inserted
Frozen(mapping) == CHOOSE s \in [DOMAIN mapping -> Range(mapping)] :
  /\ Range(s) = Range(mapping)
  /\ \A i, j \in DOMAIN s : i < j => ByteOrder(s[i][1], s[j][1])

Field(name, x) == Frame(Label(name)) \o Frame(x)

\* A count, then the framed elements.
Counted(frames) == Word(Len(frames)) \o FlattenSeq(frames)

CanonicalBytes(r) ==
  LET environment == Frozen(r.environment) IN
  CommandDomain
    \o Field("executable", r.executable)
    \o Frame(Label("argv")) \o Counted([i \in DOMAIN r.argv |-> Frame(r.argv[i])])
    \o Field("working_directory", r.directory)
    \o Frame(Label("environment"))
    \o Counted([i \in DOMAIN environment |->
                  Frame(environment[i][1]) \o Frame(environment[i][2])])
    \o Frame(Label("timeout_seconds")) \o Word(r.timeout)

CommandInit == request \in Request /\ bytes = CanonicalBytes(request)

CommandSpecHash(r) == request' = r /\ bytes' = CanonicalBytes(r)

CommandNext == \E r \in Request : CommandSpecHash(r)

CommandSpec == CommandInit /\ [][CommandNext]_commandVars

\* The command the process would be started with.
SameCommand(r, s) ==
  /\ <<r.executable, r.argv, r.directory, r.timeout>>
       = <<s.executable, s.argv, s.directory, s.timeout>>
  /\ Range(r.environment) = Range(s.environment)

BytesOf == [r \in Request |-> CanonicalBytes(r)]

\* "immutably binds an execution to the exact executable, argv, working
\* directory, environment, and timeout": two requests have the same canonical
\* bytes if and only if they would start the same command.
BytesIdentifyCommands ==
  \A r \in Request : BytesOf[r] = bytes <=> SameCommand(r, request)
=============================================================================
