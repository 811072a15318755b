------------------------------- MODULE MCShell -------------------------------
(***************************************************************************)
(* A small instance of Shell for TLC.                                      *)
(***************************************************************************)
EXTENDS Shell

MCRuleLines ==
  { <<Key("add"), Key("imask.up"), Num(1), Key("imask.down"), Num(2),
      Key("omask.up"), Num(1), Key("omask.down"), Num(2), Key("prio"), Num(7)>>,
    <<Key("add"), Key("imask.up"), Num(1), Key("omask.up"), Num(2), Key("prio"), Num(257)>>,
    <<Key("add"), Key("imask.up"), Num(1), Key("omask.up"), Num(2), Key("prio"), Num(8)>>,
    <<Key("add"), Key("imask.up"), Num(1), Key("prio"), Num(1)>>,
    <<Key("add"), Key("imask.up"), Num(1)>>,
    HelpLine,
    <<Key("add"), Key("imask.up"), Num(3), Key("imask.down"), Num(1),
      Key("omask.up"), Num(1), Key("prio"), Num(1)>>,
    <<Key("del"), Key("all")>>, <<Key("del"), Num(1)>>, <<Key("del")>>,
    <<Key("get"), Num(2)>>, <<Key("get"), Key("all")>>, <<>> }

MCIoLines ==
  { <<Key("get"), Key("in"), Num(0)>>, <<Key("get"), Key("out"), Num(1)>>,
    <<Key("set"), Num(0), Key("on")>>, <<Key("set"), Num(17), Key("off")>>,
    <<Key("get"), Key("in"), Num(1)>>, <<Key("set")>>, <<>> }

MCGarbage == {Nothing, Key("set"), Num(1)}

MCInputs == { {1} }

L(k, v) == [key |-> k, value |-> v]
MCFiles ==
  { <<L("IADDR_START", 1), L("none", 0), L("I_NUMBER", 1), L("other", 3),
      L("OADDR_START", 0), L("O_NUMBER", 2)>>,
    <<L("I_NUMBER", 2), L("O_NUMBER", 1), L("I_NUMBER", NoValue), L("OADDR_START", 15)>> }
=============================================================================
