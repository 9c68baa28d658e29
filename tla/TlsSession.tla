------------------------------ MODULE TlsSession ------------------------------
(***************************************************************************)
(* The TLS session under the MQTT client: how MqttHandle_Init opens it and *)
(* MqttHandle_DeInit releases it (MqttHandle.c).  MqttHandle_Init runs     *)
(* ssl_init, tcp_connect and ssl_handshake one after the other whether or  *)
(* not the one before succeeded, and returns their results or-ed.          *)
(*                                                                         *)
(* Each call that can fail is a step, so that the SIGINT handler, which    *)
(* releases what there is, can come between any two of them.               *)
(***************************************************************************)

VARIABLES
  step,     (* The call MqttHandle_Init makes next                          *)
  failed,   (* status # 0                                                   *)
  ctx,      (* ssl_ctx: "none", "live", or freed and still set: "dangling"  *)
  sock,     (* adafruitIo_sock: -1, open, or closed and still set           *)
  handle    (* ssl_handle: "none", "live", or "connected" and verified      *)

tlsVars == <<step, failed, ctx, sock, handle>>

-----------------------------------------------------------------------------
(* ssl_init.                                                                 *)

SslCtxNew(ok) ==
  /\ step = "SSL_CTX_new"
  /\ IF ok
       THEN ctx' = "live" /\ step' = "BIO_new_mem_buf" /\ UNCHANGED failed
       ELSE failed' = TRUE /\ step' = "socket" /\ UNCHANGED ctx
  /\ UNCHANGED <<sock, handle>>

(* The context is freed, the pointer kept.                                   *)
BioNew(ok) ==
  /\ step = "BIO_new_mem_buf"
  /\ step' = "socket"
  /\ IF ok THEN UNCHANGED <<ctx, failed>> ELSE ctx' = "dangling" /\ failed' = TRUE
  /\ UNCHANGED <<sock, handle>>

-----------------------------------------------------------------------------
(* tcp_connect.                                                              *)

Socket(ok) ==
  /\ step = "socket"
  /\ IF ok
       THEN sock' = "live" /\ step' = "connect" /\ UNCHANGED failed
       ELSE failed' = TRUE /\ step' = "SSL_new" /\ UNCHANGED sock
  /\ UNCHANGED <<ctx, handle>>

(* gethostbyname and connect: when one fails the socket is closed, its       *)
(* number kept.                                                              *)
Connect(ok) ==
  /\ step = "connect"
  /\ step' = "SSL_new"
  /\ IF ok THEN UNCHANGED <<sock, failed>> ELSE sock' = "dangling" /\ failed' = TRUE
  /\ UNCHANGED <<ctx, handle>>

-----------------------------------------------------------------------------
(* ssl_handshake.  SSL_new refuses a null context, and no handshake succeeds *)
(* over a closed socket; with a freed context both do anything.              *)

SslNew(ok) ==
  /\ step = "SSL_new"
  /\ ok => ctx # "none"
  /\ IF ok
       THEN handle' = "live" /\ step' = "SSL_connect" /\ UNCHANGED failed
       ELSE failed' = TRUE /\ step' = "return" /\ UNCHANGED handle
  /\ UNCHANGED <<ctx, sock>>

(* Seeded fault: the result is that of the last part alone.                  *)
SslConnectLast(ok) ==
  /\ step = "SSL_connect"
  /\ ok => sock = "live" \/ ctx = "dangling"
  /\ step' = "return"
  /\ handle' = IF ok THEN "connected" ELSE handle
  /\ failed' = ~ok
  /\ UNCHANGED <<ctx, sock>>

(* SSL_connect and SSL_get_verify_result.                                    *)
SslConnect(ok) ==
  /\ step = "SSL_connect"
  /\ ok => sock = "live" \/ ctx = "dangling"
  /\ step' = "return"
  /\ IF ok THEN handle' = "connected" /\ UNCHANGED failed
           ELSE failed' = TRUE /\ UNCHANGED handle
  /\ UNCHANGED <<ctx, sock>>

TlsStep(ok) ==
  SslCtxNew(ok) \/ BioNew(ok) \/ Socket(ok) \/ Connect(ok) \/ SslNew(ok) \/ SslConnect(ok)

(* The freed context is used.                                                *)
Undefined == ctx = "dangling" /\ step \in {"SSL_new", "SSL_connect"}

-----------------------------------------------------------------------------
(* MqttHandle_DeInit: each of the three that is set is released and unset;   *)
(* a dangling one is freed, or its number closed, for the second time.       *)
DeInit ==
  /\ handle' = "none" /\ sock' = "none" /\ ctx' = "none"
  /\ UNCHANGED <<step, failed>>

(* The static initialisers of a new process.                                 *)
TlsNew ==
  /\ step' = "SSL_CTX_new" /\ failed' = FALSE
  /\ ctx' = "none" /\ sock' = "none" /\ handle' = "none"

TlsInit ==
  /\ step = "SSL_CTX_new" /\ failed = FALSE
  /\ ctx = "none" /\ sock = "none" /\ handle = "none"

-----------------------------------------------------------------------------
TlsTypeOK ==
  /\ step \in {"SSL_CTX_new", "BIO_new_mem_buf", "socket", "connect",
               "SSL_new", "SSL_connect", "return"}
  /\ failed \in BOOLEAN
  /\ ctx \in {"none", "live", "dangling"} /\ sock \in {"none", "live", "dangling"}
  /\ handle \in {"none", "live", "connected"}
=============================================================================
