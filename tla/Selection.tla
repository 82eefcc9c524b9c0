----------------------------- MODULE Selection -----------------------------
(***************************************************************************)
(* What becomes of a visitor's bytes from accept to splice: the adapters   *)
(* of a PenetrateSelector (selector.rs) are tried in turn on a guarded     *)
(* stream; SocksMock (mock/socks.rs) runs the SOCKS5 handshake of          *)
(* net/socks, DirectMock (mock/direct.rs) takes whatever is left.  The     *)
(* future of async_penetrate_handle then waits for the client's connection *)
(* (module Tunnel) and writes to it what was read ahead.                   *)
(*                                                                         *)
(* A handshake is parsed from bytes; only the bytes it looks at have a     *)
(* value, and lengths are added in one byte, which has ByteMod values.     *)
(***************************************************************************)
EXTENDS Fallback

CONSTANTS
  Hellos,     \* what visitors say
  Configs,    \* the selector's adapters, in order, and what the client asked for
  ByteMod     \* number of values of a byte

ASSUME HellosAssumption ==
  Hellos \subseteq [socks: BOOLEAN, offers: Seq(Nat), pass: Nat, right: BOOLEAN,
                    cmd: Nat, atype: Nat, name: Nat, data: Nat]
ASSUME ConfigsAssumption ==
  Configs \subseteq [adapters: Seq({"socks", "direct"}),
                     socks: BOOLEAN, udp: BOOLEAN, auth: BOOLEAN]
ASSUME ByteAssumption == ByteMod \in Nat /\ ByteMod > 5

VARIABLES
  hello, config,
  pc,         \* where the visitor's future stands
  turn,       \* the adapter being tried
  stage,      \* State of the handshake, and the step of its authentication
  need, got,  \* the size of read_buf, and the bytes read into it
  looping,    \* inside the handshake's inner read loop
  told,       \* what was written to the visitor
  via, out    \* the adapter that chose the route, and what its destination got

handshakeVars == <<stage, need, got, looping>>
vars == <<fallbackVars, hello, config, pc, turn, handshakeVars, told, via, out>>

-----------------------------------------------------------------------------
(* What visitors send *)

Filler(n) == [i \in 1 .. n |-> 1]

AddressLen(atype) == CASE atype = 1 -> 6 [] atype = 4 -> 18

Credentials(h) == <<1, 1, 1, h.pass>> \o Filler(h.pass)

Address(h) == IF h.atype = 3 THEN <<h.name>> \o Filler(h.name + 2)
              ELSE IF h.atype \in {1, 4} THEN Filler(AddressLen(h.atype)) ELSE <<>>

Dialogue(h, c) ==
  IF ~h.socks THEN <<>>
  ELSE <<5, Len(h.offers)>> \o h.offers
       \o (IF c.auth THEN Credentials(h) ELSE <<>>)
       \o <<5, h.cmd, 0, h.atype>> \o Address(h)

Content == Dialogue(hello, config) \o Filler(hello.data)
Whole == [p \in 1 .. Len(Content) |-> p]
Payload == SubSeq(Whole, Len(Dialogue(hello, config)) + 1, Len(Content))

\* The value of the i-th byte read into read_buf.
Byte(i) == Content[got[i]]

-----------------------------------------------------------------------------
Running == {"select", "socks", "routed"}
Ended == {"spliced", "provider", "closed", "finished", "failed", "reset", "abort"}
Stages == {"head", "methods", "auth_version", "auth_user", "auth_pass",
           "request", "name", "address"}
Answers == {"none", "password", "granted", "denied", "succeeded", "no_udp"}

TypeOK ==
  /\ hello \in Hellos /\ config \in Configs
  /\ pc \in Running \cup Ended
  /\ turn \in 1 .. Len(config.adapters) + 1
  /\ pc = "socks" => turn <= Len(config.adapters)
  /\ stage \in Stages
  /\ need \in Nat /\ Len(got) <= need
  /\ looping \in BOOLEAN /\ fin \in BOOLEAN
  /\ told \in Seq(Answers)
  /\ via \in {"nobody", "socks", "direct"}
  /\ \A s \in {got, wire, Data(marked), Data(backed), out} : s \in Seq(1 .. Len(Content))

Init ==
  /\ hello \in Hellos /\ config \in Configs
  /\ Marked(Whole)
  /\ pc = "select" /\ turn = 1
  /\ stage = "head" /\ need = 0 /\ got = <<>> /\ looping = FALSE
  /\ told = <<>> /\ via = "nobody" /\ out = <<>>

Expect(next, n) == stage' = next /\ need' = n /\ got' = <<>> /\ looping' = FALSE

End(as) == pc' = as /\ UNCHANGED <<turn, handshakeVars, via, out>>

-----------------------------------------------------------------------------
(* PenetrateSelector::call *)

Adapter == config.adapters[turn]

\* Mutant: only async_penetrate_handle marks.
CallSocksUnmarked ==
  /\ pc = "select" /\ turn <= Len(config.adapters) /\ Adapter = "socks" /\ config.socks
  /\ pc' = "socks"
  /\ Expect("head", 2)
  /\ UNCHANGED <<fallbackVars, hello, config, turn, told, via, out>>

CallSocks ==
  /\ pc = "select" /\ turn <= Len(config.adapters) /\ Adapter = "socks" /\ config.socks
  /\ Mark
  /\ pc' = "socks"
  /\ Expect("head", 2)
  /\ UNCHANGED <<hello, config, turn, told, via, out>>

\* SOCKS5 was not asked for: marked, and given back at once.
SkipSocks ==
  /\ pc = "select" /\ turn <= Len(config.adapters) /\ Adapter = "socks" /\ ~config.socks
  /\ backed' = GivenBack(Placed)
  /\ marked' = None
  /\ turn' = turn + 1
  /\ UNCHANGED <<wire, fin, hello, config, pc, handshakeVars, told, via, out>>

Direct ==
  /\ pc = "select" /\ turn <= Len(config.adapters) /\ Adapter = "direct"
  /\ Mark
  /\ pc' = "routed" /\ via' = "direct"
  /\ UNCHANGED <<hello, config, turn, handshakeVars, told, out>>

Unknown ==
  /\ pc = "select" /\ turn > Len(config.adapters)
  /\ End("closed")
  /\ UNCHANGED <<fallbackVars, hello, config, told>>

-----------------------------------------------------------------------------
(* Socks5::poll: reading *)

AtTop == pc = "socks" /\ ~looping
Complete(s) == AtTop /\ stage = s /\ Len(got) = need
Room == need - Len(got)
Authenticating == stage \in {"auth_version", "auth_user", "auth_pass"}

\* The inner loop ends when the offset equals the room there was before the read;
\* poll_auth compares with the size of the buffer instead.
ReadSome ==
  /\ pc = "socks" /\ Room > 0
  /\ \E n \in ReadSizes(Room) :
       /\ Read(n)
       /\ got' = got \o ReadBytes(n)
       /\ looping' = (~Authenticating /\ Len(got) + n # Room)
  /\ UNCHANGED <<hello, config, pc, turn, stage, need, told, via, out>>

ReadNothing ==
  /\ pc = "socks"
  /\ Room > 0 \/ looping \/ (stage = "auth_pass" /\ need = 0)
  /\ ReadsNothing(Room)
  /\ End("reset")
  /\ UNCHANGED <<fallbackVars, hello, config, told>>

\* Nothing has arrived, or the task's budget is used up: polled again from the top.
Pend ==
  /\ pc = "socks" /\ looping /\ ReadPends
  /\ looping' = FALSE
  /\ UNCHANGED <<fallbackVars, hello, config, pc, turn, stage, need, got, told, via, out>>

-----------------------------------------------------------------------------
(* Socks5::poll and S5Authenticate::poll_auth: what was read *)

Tell(m) == told' = Append(told, m)

\* Mutant: read_offset is kept.
HeadKeepsOffset ==
  /\ Complete("head") /\ Byte(1) = 5
  /\ stage' = "methods" /\ need' = Byte(2)
  /\ UNCHANGED <<fallbackVars, hello, config, pc, turn, got, looping, told, via, out>>

Head5 ==
  /\ Complete("head") /\ Byte(1) = 5
  /\ Expect("methods", Byte(2))
  /\ UNCHANGED <<fallbackVars, hello, config, pc, turn, told, via, out>>

\* The only error after which the next adapter is tried.
NotSocks ==
  /\ Complete("head") /\ Byte(1) # 5
  /\ Backward
  /\ pc' = "select" /\ turn' = turn + 1
  /\ Expect("head", 0)
  /\ UNCHANGED <<hello, config, told, via, out>>

\* The methods offered are not looked at.
AnswerMethods ==
  /\ Complete("methods")
  /\ DropBuffers
  /\ IF config.auth THEN Tell("password") /\ Expect("auth_version", 2)
     ELSE Tell("none") /\ Expect("request", 4)
  /\ UNCHANGED <<hello, config, pc, turn, via, out>>

AuthStep ==
  \/ /\ Complete("auth_version") /\ Byte(1) = 1
     /\ Expect("auth_user", Byte(2) + 1)
  \/ /\ Complete("auth_user")
     /\ Expect("auth_pass", Byte(need))

ReadCredentials ==
  /\ AuthStep
  /\ UNCHANGED <<fallbackVars, hello, config, pc, turn, told, via, out>>

\* Mutant: any password will do.
CheckNoCredentials ==
  /\ Complete("auth_pass") /\ need > 0
  /\ DropBuffers
  /\ Tell("granted") /\ Expect("request", 4)
  /\ UNCHANGED <<hello, config, pc, turn, via, out>>

CheckCredentials ==
  /\ Complete("auth_pass") /\ need > 0
  /\ DropBuffers
  /\ IF hello.right THEN Tell("granted") /\ Expect("request", 4) /\ UNCHANGED <<pc, turn, via, out>>
     ELSE Tell("denied") /\ End("failed")
  /\ UNCHANGED <<hello, config>>

\* Mutant: the port after the address is forgotten.
RequestNoPort ==
  /\ Complete("request") /\ Byte(1) = 5 /\ Byte(4) \in {1, 3, 4}
  /\ IF Byte(4) = 3 THEN Expect("name", 1) ELSE Expect("address", AddressLen(Byte(4)) - 2)
  /\ UNCHANGED <<fallbackVars, hello, config, pc, turn, told, via, out>>

Request ==
  /\ Complete("request") /\ Byte(1) = 5 /\ Byte(4) \in {1, 3, 4}
  /\ IF Byte(4) = 3 THEN Expect("name", 1) ELSE Expect("address", AddressLen(Byte(4)))
  /\ UNCHANGED <<fallbackVars, hello, config, pc, turn, told, via, out>>

\* The name's length and its port, added in one byte.  A sum of 1 matches the
\* arm of the length once more.
NameLength ==
  /\ Complete("name")
  /\ LET len == (Byte(1) + 2) % ByteMod
     IN Expect(IF len = 1 THEN "name" ELSE "address", len)
  /\ UNCHANGED <<fallbackVars, hello, config, pc, turn, told, via, out>>

BadAuth == Complete("auth_version") /\ Byte(1) # 1
BadRequest == Complete("request") /\ (Byte(1) # 5 \/ Byte(4) \notin {1, 3, 4})
BadCommand == Complete("address") /\ (hello.cmd = 2 \/ (need > 0 /\ hello.cmd \notin {1, 3}))

Refuse ==
  /\ BadAuth \/ BadRequest \/ BadCommand
  /\ End("failed")
  /\ UNCHANGED <<fallbackVars, hello, config, told>>

\* parse_address takes the last two bytes of an empty name.
ParseNothing ==
  /\ Complete("address") /\ need = 0 /\ hello.cmd # 2
  /\ End("abort")
  /\ UNCHANGED <<fallbackVars, hello, config, told>>

\* CONNECT is answered before the client is even asked.
RouteConnect ==
  /\ Complete("address") /\ need > 0 /\ hello.cmd = 1
  /\ Tell("succeeded")
  /\ DropBuffers
  /\ pc' = "routed" /\ via' = "socks"
  /\ Expect("head", 0)
  /\ UNCHANGED <<hello, config, turn, out>>

RouteUdp ==
  /\ Complete("address") /\ need > 0 /\ hello.cmd = 3
  /\ DropBuffers
  /\ IF config.udp THEN End("provider") /\ UNCHANGED told
     ELSE End("finished") /\ Tell("no_udp")
  /\ UNCHANGED <<hello, config>>

-----------------------------------------------------------------------------
(* async_penetrate_handle, once there is a route *)

\* The client's connection is there: what was read ahead goes first.
Splice ==
  /\ pc = "routed"
  /\ pc' = "spliced"
  /\ out' = Data(GivenBack(marked))
  /\ marked' = None /\ backed' = None
  /\ UNCHANGED <<wire, fin, hello, config, turn, handshakeVars, told, via>>

\* The timer, the client's MapError, or the end of the session.
GiveUp ==
  /\ pc \in Running
  /\ End("failed")
  /\ UNCHANGED <<fallbackVars, hello, config, told>>

VisitorCloses ==
  /\ ~fin /\ pc \in Running
  /\ fin' = TRUE
  /\ UNCHANGED <<wire, marked, backed, hello, config, pc, turn, handshakeVars, told, via, out>>

Select == CallSocks \/ SkipSocks \/ Direct \/ Unknown
Reads == ReadSome \/ ReadNothing \/ Pend
Handshake ==
  \/ Head5 \/ NotSocks \/ AnswerMethods \/ ReadCredentials \/ CheckCredentials
  \/ Request \/ NameLength \/ Refuse \/ ParseNothing \/ RouteConnect \/ RouteUdp

Next == Select \/ Reads \/ Handshake \/ Splice \/ GiveUp \/ VisitorCloses

Spec == Init /\ [][Next]_vars

-----------------------------------------------------------------------------
(* Properties *)

\* Until something is written to the visitor, everything it sent can still be
\* read again, in order: what the adapter at work has read, what earlier ones
\* gave back, and what is on the wire.
NothingLost ==
  (told = <<>> /\ pc \in Running) => Data(marked) \o Data(backed) \o wire = Whole

\* A visitor that does not speak SOCKS5 reaches the default destination with
\* its bytes unchanged, whatever the adapters before DirectMock read.
PlainUnchanged ==
  (pc = "spliced" /\ via = "direct") => out \o wire = Whole

\* A destination asked for by SOCKS5 gets what follows the dialogue and nothing
\* of the dialogue itself, for names whose length fits with the port in a byte.
LongName == hello.atype = 3 /\ hello.name + 2 >= ByteMod
PayloadOnly ==
  (pc = "spliced" /\ via = "socks" /\ ~LongName) => out = <<>> /\ wire = Payload

\* With a password set, SOCKS5 opens a route only after the right one was given.
RoutedOnlyWithPassword ==
  (config.auth /\ (via = "socks" \/ pc \in {"provider", "finished"}))
     => hello.right /\ told[1] = "password" /\ told[2] = "granted"

\* rfc1928:132: the handshake reads a stream; it fails as reset only if the
\* visitor has closed and everything it sent was read.
ResetOnlyIfClosed == pc = "reset" => fin /\ wire = <<>>
=============================================================================
