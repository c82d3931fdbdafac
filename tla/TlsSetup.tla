------------------------------ MODULE TlsSetup ------------------------------
(***************************************************************************)
(* security_layer.c and ws_ssl.c: contexts whose parts are initialised one *)
(* after the other, with a step that may fail behind each.                 *)
(*                                                                         *)
(* security_create_context copies the mode of global_config once and reads *)
(* its other fields at every step, while security_init may replace it: an  *)
(* optional step is therefore taken or left, whatever was configured when  *)
(* the creation began.  mbedTLS is external; of it the model knows which   *)
(* objects have been initialised and freed.                                *)
(***************************************************************************)
EXTENDS Naturals, Sequences

CONSTANT Contexts            (* contexts, each created and destroyed by    *)
                             (* a task of its own, again and again         *)

SECURITY_MODE_NONE    == "none"
SECURITY_MODE_AES_128 == "aes_128"
SECURITY_MODE_AES_256 == "aes_256"
SECURITY_MODE_TLS_1_2 == "tls_1_2"
SECURITY_MODE_TLS_1_3 == "tls_1_3"
AES   == {SECURITY_MODE_AES_128, SECURITY_MODE_AES_256}
TLS   == {SECURITY_MODE_TLS_1_2, SECURITY_MODE_TLS_1_3}
Modes == {SECURITY_MODE_NONE} \cup AES \cup TLS

\* The context of ws_ssl.c, which is its caller's and has no mode.
WS_SSL == "ws_ssl"
Kinds  == Modes \cup {WS_SSL}

Random     == {"entropy", "ctr_drbg"}
TlsObjects == {"ssl", "conf", "cert", "pkey", "ca_cert"}
WsObjects  == Random \cup {"ssl", "conf", "ca_cert", "client_cert", "client_key", "net_ctx"}
Objects    == Random \cup TlsObjects \cup WsObjects \cup {"aes"}

VARIABLES
  global_mode,               (* global_config.mode                         *)
  status,                    (* "none", "creating", "ready" or "failed"    *)
  kind,                      (* ctx->mode, or WS_SSL                       *)
  step,                      (* the step that is next                      *)
  held,                      (* objects initialised and not freed          *)
  abandoned,                 (* objects whose context was freed before them *)
  misfreed                   (* objects freed without being initialised    *)

tlsVars == <<global_mode, status, kind, step, held, abandoned, misfreed>>

-----------------------------------------------------------------------------
(* The steps of a creation: what is initialised before it, and what        *)
(* becomes of the context when it fails.                                   *)

Step(makes, failure) == [makes |-> makes, failure |-> failure]

\* Certificate, key, CA, defaults, own certificate, setup and host name, the
\* objects being initialised before the first.
TlsFailures(first) ==
  << Step(TlsObjects, first) >> \o [i \in 1..6 |-> Step({}, "destroy")]

\* Mutant: a certificate that cannot be parsed frees the context like the seed.
TlsStepsFree == TlsFailures("free")

TlsSteps == TlsFailures("destroy")

\* Seed, defaults, CA, the client's certificate and key, both put into the
\* configuration, setup.
WsSteps == << Step(WsObjects, "leave") >> \o [i \in 1..6 |-> Step({}, "leave")]

Steps(k) ==
  IF k = WS_SSL THEN WsSteps
  ELSE << Step(Random, "free") >> \o
         (IF k \in AES THEN << Step({"aes"}, "free") >>
          ELSE IF k \in TLS THEN TlsSteps ELSE <<>>)

\* Mutant: the mode is looked up where it was configured.
FreedNow(c) ==
  Random \cup (IF global_mode \in AES THEN {"aes"}
               ELSE IF global_mode \in TLS THEN TlsObjects ELSE {})

\* What security_destroy_context frees.
Freed(c) ==
  Random \cup (IF kind[c] \in AES THEN {"aes"}
               ELSE IF kind[c] \in TLS THEN TlsObjects ELSE {})

-----------------------------------------------------------------------------
TlsInit ==
  /\ global_mode \in Modes
  /\ status = [c \in Contexts |-> "none"]
  /\ kind = [c \in Contexts |-> SECURITY_MODE_NONE]
  /\ step = [c \in Contexts |-> 1]
  /\ held = [c \in Contexts |-> {}]
  /\ abandoned = {}
  /\ misfreed = {}

security_init ==
  /\ global_mode' \in Modes
  /\ UNCHANGED <<status, kind, step, held, abandoned, misfreed>>

Create(c) ==
  /\ status[c] = "none"
  /\ \E k \in {global_mode, WS_SSL} : kind' = [kind EXCEPT ![c] = k]
  /\ status' = [status EXCEPT ![c] = "creating"]
  /\ step' = [step EXCEPT ![c] = 1]
  /\ UNCHANGED <<global_mode, held, abandoned, misfreed>>

Current(c) == Steps(kind[c])[step[c]]

\* The step succeeds, or the configuration leaves it out.
Advance(c) ==
  /\ status[c] = "creating"
  /\ held' = [held EXCEPT ![c] = @ \cup Current(c).makes]
  /\ IF step[c] < Len(Steps(kind[c]))
       THEN step' = [step EXCEPT ![c] = @ + 1] /\ UNCHANGED status
       ELSE status' = [status EXCEPT ![c] = "ready"] /\ UNCHANGED step
  /\ UNCHANGED <<global_mode, kind, abandoned, misfreed>>

Fails(c, failure) ==
  /\ status[c] = "creating"
  /\ Current(c).failure = failure

\* free(*ctx): nothing in it is freed.
FailsAndFrees(c) ==
  /\ Fails(c, "free")
  /\ abandoned' = abandoned \cup held[c] \cup Current(c).makes
  /\ held' = [held EXCEPT ![c] = {}]
  /\ status' = [status EXCEPT ![c] = "none"]
  /\ UNCHANGED <<global_mode, kind, step, misfreed>>

security_destroy_context(c, objects) ==
  /\ misfreed' = misfreed \cup (Freed(c) \ objects)
  /\ abandoned' = abandoned \cup (objects \ Freed(c))
  /\ held' = [held EXCEPT ![c] = {}]
  /\ status' = [status EXCEPT ![c] = "none"]
  /\ UNCHANGED <<global_mode, kind, step>>

FailsAndDestroys(c) ==
  /\ Fails(c, "destroy")
  /\ security_destroy_context(c, held[c] \cup Current(c).makes)

\* ws_ssl_init returns and leaves the context to its caller.
FailsAndLeaves(c) ==
  /\ Fails(c, "leave")
  /\ held' = [held EXCEPT ![c] = @ \cup Current(c).makes]
  /\ status' = [status EXCEPT ![c] = "failed"]
  /\ UNCHANGED <<global_mode, kind, step, abandoned, misfreed>>

Destroy(c) ==
  /\ status[c] = "ready"
  /\ kind[c] # WS_SSL
  /\ security_destroy_context(c, held[c])

\* ws_ssl_destroy is declared and not defined; it has to free what
\* ws_ssl_init initialises, whether that succeeded or not.
ws_ssl_destroy(c) ==
  /\ status[c] \in {"ready", "failed"}
  /\ kind[c] = WS_SSL
  /\ misfreed' = misfreed \cup (WsObjects \ held[c])
  /\ abandoned' = abandoned \cup (held[c] \ WsObjects)
  /\ held' = [held EXCEPT ![c] = {}]
  /\ status' = [status EXCEPT ![c] = "none"]
  /\ UNCHANGED <<global_mode, kind, step>>

TlsNext ==
  \/ security_init
  \/ \E c \in Contexts :
       \/ Create(c) \/ Advance(c)
       \/ FailsAndFrees(c) \/ FailsAndDestroys(c) \/ FailsAndLeaves(c)
       \/ Destroy(c) \/ ws_ssl_destroy(c)

TlsSpec == TlsInit /\ [][TlsNext]_tlsVars

-----------------------------------------------------------------------------
(* Properties *)

\* Types, and how far a context is.
TlsTypeOK ==
  /\ global_mode \in Modes
  /\ status \in [Contexts -> {"none", "creating", "ready", "failed"}]
  /\ kind \in [Contexts -> Kinds]
  /\ step \in [Contexts -> Nat]
  /\ \A c \in Contexts : step[c] \in DOMAIN Steps(kind[c])
  /\ held \in [Contexts -> SUBSET Objects]
  /\ abandoned \subseteq Objects
  /\ misfreed \subseteq Objects

\* What is destroyed has been initialised, at whichever step the creation
\* failed and although security_init may have changed the mode since
\* (security_destroy_context goes by ctx->mode).
FreesWhatItMade == misfreed = {}

\* The seed, or the IV of a context for AES, has failed.
FailsEarly(c) ==
  /\ status[c] = "creating" /\ status'[c] = "none"
  /\ step[c] = 1 \/ kind[c] \in AES

\* Objects that nobody can free any more are left behind only by a failing seed
\* and a failing IV (security_create_context, lines 69 and 83): every other
\* failing step, and every destruction, frees all that its context holds.
LostEarlyOnly ==
  [][abandoned' # abandoned => \E c \in Contexts : FailsEarly(c)]_tlsVars
=============================================================================
