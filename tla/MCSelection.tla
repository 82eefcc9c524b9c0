---------------------------- MODULE MCSelection ----------------------------
(* Selection for TLC: what a few visitors say, in bytes of eight values. *)
EXTENDS Selection

Hello(socks, offers, pass, right, cmd, atype, name, data) ==
  [socks |-> socks, offers |-> offers, pass |-> pass, right |-> right,
   cmd |-> cmd, atype |-> atype, name |-> name, data |-> data]

Plain(n) == Hello(FALSE, <<>>, 0, FALSE, 1, 1, 0, n)
Asks(offers, pass, right, cmd, atype, name) ==
  Hello(TRUE, offers, pass, right, cmd, atype, name, 2)

PlainHellos == {Plain(n) : n \in 0 .. 4}
\* Methods are 0 (no authentication) and 2 (password); addresses 1, 4 and 3 (a name).
FullHellos ==
  PlainHellos
  \cup {Asks(o, p, r, 1, 1, 0) : o \in {<<>>, <<0>>, <<2>>, <<0, 2>>}, p \in {0, 2}, r \in BOOLEAN}
  \cup {Asks(<<0, 2>>, 1, TRUE, c, t, 1) : c \in 1 .. 4, t \in 1 .. 4}
  \cup {Asks(<<0, 2>>, 1, TRUE, 1, 3, n) : n \in {0, 5, 6, 7}}

Config(adapters, socks, udp, auth) ==
  [adapters |-> adapters, socks |-> socks, udp |-> udp, auth |-> auth]

ProgramAdapters == <<"socks", "direct">>
TwoSocks == <<"socks", "socks", "direct">>

AllConfigs ==
  {Config(<<"socks">>, TRUE, FALSE, FALSE), Config(TwoSocks, FALSE, FALSE, FALSE)}
  \cup {Config(TwoSocks, TRUE, u, a) : u, a \in BOOLEAN}
OpenSocks == {Config(ProgramAdapters, TRUE, FALSE, FALSE)}

\* Credentials that no client leaves out, and a request it could really send.
ValidHellos ==
  PlainHellos \cup {Asks(<<0, 2>>, 1, TRUE, 1, t, 2) : t \in {1, 3}}
=============================================================================
