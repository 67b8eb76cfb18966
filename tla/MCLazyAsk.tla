------------------------------- MODULE MCLazyAsk -------------------------------
(* A service built from a plain setting and a logger built from another.         *)
EXTENDS LazyAsk, TLC

CONSTANTS db, url, log, svc, prod, test, logP, svcP, otherP

MCKey == {db, url, log, svc}
MCLazy == (logP :> <<url>>) @@ (svcP :> <<log, db>>) @@ (otherP :> <<>>)
MCBaseEnv == (db :> prod) @@ (url :> prod) @@ (log :> logP) @@ (svc :> svcP)
PlainOverrides == {db :> test, url :> test}
ProgramOverrides == {log :> otherP}
================================================================================
