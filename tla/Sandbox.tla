------------------------------ MODULE Sandbox ------------------------------
(***************************************************************************)
(* src/internal/server/sandbox.go: how the command of a backing MCP is     *)
(* wrapped in a bubblewrap invocation.  Pure functions from a policy to a  *)
(* command, with the arguments kept in the order in which bwrap applies    *)
(* them: a mount hides what an earlier one put at or above its path.       *)
(* Covers and the reading of the list (View, ChildEnv) stand for bwrap.    *)
(***************************************************************************)
EXTENDS Naturals, Sequences

CONSTANTS
  Paths, AbsPaths,     \* paths of a policy; the absolute ones
  Covers,              \* <<p, q>>: path q is p or lies below it
  DefaultROBinds,      \* a sequence: /usr, /bin, /sbin, /lib, /lib64, /etc
  FreshViews,          \* a sequence: /proc, /dev, /tmp, /run
  NoKey,               \* NoKey: an entry without '=', or with nothing before it
  NilPolicy, Error

Networks == {"", "host", "none"}

(* The zero value of SandboxPolicy.                                         *)
ZeroPolicy ==
  [network |-> "", bindReadOnly |-> <<>>, bindReadWrite |-> <<>>,
   noDefaults |-> FALSE, disabled |-> FALSE]

ResolveSandboxPolicy(p) ==
  LET out == IF p = NilPolicy THEN ZeroPolicy ELSE p IN
  IF out.disabled \/ out.noDefaults THEN out
  ELSE [out EXCEPT !.bindReadOnly = DefaultROBinds \o @]

Mount(kind, paths) == [i \in 1..Len(paths) |-> [kind |-> kind, path |-> paths[i]]]

(* The mount arguments: fresh views, then read-only, then read-write binds. *)
Mounts(p) ==
  Mount("fresh", FreshViews) \o Mount("ro", p.bindReadOnly) \o Mount("rw", p.bindReadWrite)

PathsOf(seq) == {seq[i] : i \in 1..Len(seq)}

BuildBwrapArgs(p, cmd) ==
  IF \/ p.network \notin Networks
     \/ ~(PathsOf(p.bindReadOnly) \cup PathsOf(p.bindReadWrite) \subseteq AbsPaths)
    THEN Error
    ELSE [mounts     |-> Mounts(p),
          unshareNet |-> p.network = "none",
          setenv     |-> {e \in cmd.env : e.key # NoKey},
          program    |-> cmd.program]

(* A command that needs bwrap is not run without it.                        *)
WrapCommand(cmd, policy, bwrapFound) ==
  LET p == ResolveSandboxPolicy(policy) IN
  CASE p.disabled -> cmd
    [] ~p.disabled /\ ~bwrapFound -> Error
    [] ~p.disabled /\ bwrapFound -> BuildBwrapArgs(p, cmd)
-----------------------------------------------------------------------------
(* What the child of a wrapped command finds.                               *)

Covering(mounts, q) == {i \in 1..Len(mounts) : <<mounts[i].path, q>> \in Covers}
LastOf(S) == CHOOSE i \in S : \A j \in S : j <= i

(* The last mount at or above a path decides what is seen there.            *)
View(mounts, q) ==
  IF Covering(mounts, q) = {} THEN "absent"
  ELSE mounts[LastOf(Covering(mounts, q))].kind

Granted(seq, q) == \E i \in 1..Len(seq) : <<seq[i], q>> \in Covers

Defaults(p) == IF p.noDefaults THEN <<>> ELSE DefaultROBinds

(* What the comments on SandboxPolicy say of a path, given the policy as it *)
(* is written: below a bindReadOnly entry "the MCP can read these but not   *)
(* write them"; else below a bindReadWrite entry it may write; the defaults *)
(* are "visible to every sandbox unless the policy overrides it"; what is   *)
(* left of the host is not there.                                           *)
Intended(p, q) ==
  CASE Granted(p.bindReadOnly, q) -> "ro"
    [] Granted(p.bindReadWrite, q) /\ ~Granted(p.bindReadOnly, q) -> "rw"
    [] ~Granted(p.bindReadOnly \o p.bindReadWrite, q) ->
         CASE Granted(Defaults(p), q) -> "ro"
           [] ~Granted(Defaults(p), q) -> IF Granted(FreshViews, q) THEN "fresh" ELSE "absent"

(* A path a policy grants both ways: the comments contradict each other,    *)
(* the code lets it be written.                                             *)
Conflicting(p, q) == Granted(p.bindReadOnly, q) /\ Granted(p.bindReadWrite, q)
=============================================================================
