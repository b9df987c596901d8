---------------------------- MODULE MCLiveCapture ----------------------------
(***************************************************************************)
(* Instances of LiveCapture, of four devices at most.                      *)
(***************************************************************************)
EXTENDS LiveCapture

Inst(class, id) ==
  [class |-> class, id |-> id, position |-> None, feed |-> None, direction |-> None]
ThePanel == Inst("panel", "panel")

\* A breaker that feeds the one battery, which hosts a MID.
OneBattery ==
  <<ThePanel, Inst("circuit", "breaker"),
    [Inst("bess", "battery") EXCEPT !.position = "IN_PANEL", !.feed = "breaker"],
    Inst("mid", "mid")>>

\* Two batteries upstream of the lugs, which can name one of them.
TwoUpstream ==
  <<ThePanel, [Inst("lugs", "lugs") EXCEPT !.direction = "upstream"],
    [Inst("bess", "b1") EXCEPT !.position = "UPSTREAM"],
    [Inst("bess", "b2") EXCEPT !.position = "UPSTREAM"]>>

\* A battery and a charger on one breaker, which can name one of them.
OneFeed ==
  <<ThePanel, Inst("circuit", "breaker"),
    [Inst("bess", "battery") EXCEPT !.position = "IN_PANEL", !.feed = "breaker"],
    [Inst("evse", "evse") EXCEPT !.position = "IN_PANEL", !.feed = "breaker"]>>

\* A battery on no breaker, which hosts a MID.
Hosted ==
  <<ThePanel, [Inst("bess", "battery") EXCEPT !.position = "IN_PANEL"], Inst("mid", "mid")>>

\* Two lugs, of which the battery upstream feeds one; their ids do not say which.
TwoLugs ==
  <<ThePanel, [Inst("lugs", "lugs-1") EXCEPT !.direction = "upstream"],
    [Inst("lugs", "lugs-2") EXCEPT !.direction = "downstream"],
    [Inst("bess", "battery") EXCEPT !.position = "UPSTREAM"]>>

\* Lugs whose id says where they are.
DownstreamOnly ==
  <<ThePanel, [Inst("lugs", "lugs-downstream") EXCEPT !.direction = "downstream"],
    [Inst("bess", "battery") EXCEPT !.position = "UPSTREAM"]>>

MCInstallations == {Hosted, TwoUpstream, OneFeed, TwoLugs, DownstreamOnly}
MCDownNamed == {"lugs-downstream"}
OneInstallation == {OneBattery}
=============================================================================
