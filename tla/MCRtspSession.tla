---------------------------- MODULE MCRtspSession ----------------------------
(***************************************************************************)
(* RtspSession with the dialogues of different clients.                    *)
(***************************************************************************)
EXTENDS RtspSession

\* Methods sent at any time but TEARDOWN: clients that just disconnect.
NoTeardown == States \X (Methods \ {"TEARDOWN"})

\* The same, and no SETUP that must be refused.
NoBadSetup ==
  {d \in NoTeardown : d[2] = "SETUP" => d[1] \in {"OPTIONS", "DESCRIBE", "SETUP"}}

\* The same, and a session once set up is kept alive with GET_PARAMETER: OPTIONS and
\* DESCRIBE come before SETUP only.
SetupOnce ==
  {d \in NoBadSetup : d[2] \in {"OPTIONS", "DESCRIBE"} =>
                          d[1] \in {"NONE", "OPTIONS", "DESCRIBE"}}

\* The same, and TEARDOWN from any state.
SetupOnceTeardown == SetupOnce \cup (States \X {"TEARDOWN"})

\* Nothing but what leads to one SETUP.
SetupOnly == {<<"NONE", "OPTIONS">>, <<"OPTIONS", "SETUP">>}

\* What the clients of each slot send.
AllSendAnything == [s \in 1 .. NumSlots |-> States \X Methods]
AllDisconnect == [s \in 1 .. NumSlots |-> NoTeardown]
AllSetUpOnce == [s \in 1 .. NumSlots |-> SetupOnce]
OneAmongSetups ==
  [s \in 1 .. NumSlots |-> IF s = 1 THEN SetupOnceTeardown ELSE SetupOnly]

\* The transports that the clients of each slot ask for.
AllTcp == [s \in 1 .. NumSlots |-> {"TCP"}]
AllUdp == [s \in 1 .. NumSlots |-> {"UDP"}]
AnyTcp == [s \in 1 .. NumSlots |-> {"TCP", "absent", "unknown"}]
TcpThenUdp == [s \in 1 .. NumSlots |-> {"TCP", "UDP"}]
TcpBesideUdp == [s \in 1 .. NumSlots |-> IF s = 1 THEN {"TCP"} ELSE {"UDP"}]
==============================================================================
