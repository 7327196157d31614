------------------------- MODULE MCServerLifecycle -------------------------
(***************************************************************************)
(* Small instances of ServerLifecycle: the configurations between which    *)
(* the code distinguishes, and the policies of the sandbox.                *)
(***************************************************************************)
EXTENDS ServerLifecycle, TLC

CONSTANTS usr, bin, proc_, tmp, data, secret, rel, home

MCPaths    == {usr, bin, proc_, tmp, data, secret, rel}
MCAbsPaths == MCPaths \ {rel}
MCCovers   == {<<p, p>> : p \in MCAbsPaths} \cup {<<data, secret>>}
MCDefaults == <<usr, bin>>
MCFresh    == <<proc_, tmp>>

Policy == [network : {"host", "none", "other"},
           bindReadOnly : {<<>>, <<data>>, <<secret>>, <<rel>>},
           bindReadWrite : {<<>>, <<data>>, <<secret>>, <<tmp, rel>>},
           noDefaults : BOOLEAN, disabled : BOOLEAN]

(* A path in the sandbox is seen as the comments on SandboxPolicy say,      *)
(* though the list of arguments knows only an order; one that is granted    *)
(* both ways can be written.                                                *)
ASSUME MountOrderIsRight ==
  \A p \in Policy : LET q == S!ResolveSandboxPolicy(p)
                        b == S!BuildBwrapArgs(q, [program |-> usr, env |-> {}]) IN
    ~p.disabled /\ b # Error =>
      \A x \in AbsPaths :
        S!View(b.mounts, x) = IF S!Conflicting(p, x) THEN "rw" ELSE S!Intended(p, x)

Env == {[key |-> home, value |-> data], [key |-> NoKey, value |-> data]}
Backend(isolate, sandbox) ==
  [isolate |-> isolate, sandbox |-> sandbox, program |-> bin, env |-> Env]
Strange(change) == [network |-> change, bindReadOnly |-> <<data>>, bindReadWrite |-> <<tmp>>,
                    noDefaults |-> FALSE, disabled |-> FALSE]

Plain == [file |-> "good", hashes |-> "good", listen |-> NoAddr, backend |-> NoBackend,
          idleSeconds |-> 0, sweepSeconds |-> 0, poolIdleSeconds |-> 0, rateLimit |-> 0]
Isolated == [Plain EXCEPT !.backend = Backend(TRUE, NilPolicy)]

MCFileConfigs ==
  {[Plain EXCEPT !.file = "unreadable"], [Plain EXCEPT !.hashes = "short"],
   [Plain EXCEPT !.rateLimit = 1, !.idleSeconds = 2],
   [Plain EXCEPT !.backend = Backend(FALSE, Strange("none"))],
   [Plain EXCEPT !.backend = Backend(FALSE, Strange("other"))],
   [Plain EXCEPT !.backend = Backend(FALSE, NilPolicy), !.rateLimit = 1,
                 !.idleSeconds = 4], \* wraps around
   Isolated}

MCEmbeddedConfigs ==
  LET c == [Runtime(Plain, NoAddr) EXCEPT !.limited = TRUE] IN
  {[c EXCEPT !.backend = "runner"], [c EXCEPT !.backend = "both"]}
=============================================================================
