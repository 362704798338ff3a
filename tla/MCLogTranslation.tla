-------------------------- MODULE MCLogTranslation --------------------------
(***************************************************************************)
(* LogTranslation with a few messages: the record of a system call of      *)
(* auditctl (whose name holds "audit"), those of a heartbeat command and   *)
(* of a command without arguments (logged in quotes), that of a file whose *)
(* name has a comma and a keyword in it, one of a type that is not         *)
(* translated; what test_tcp_connect() sends, and a digest of the kernel   *)
(* integrity TA.                                                           *)
(***************************************************************************)
EXTENDS LogTranslation

Texts == [
  syscall  |-> <<"audit", "syscall", "item", "audit", ",", "node">>,
  key      |-> <<"audit", "proctitle", "ps", "t1", ",", "node">>,
  quoted   |-> <<"audit", "proctitle", "name", ",", "node">>,
  path     |-> <<"audit", "item", ",", "cwd", ",", "node">>,
  execve   |-> <<"audit", "argc", ",", "node">>,
  auditctl |-> <<"audit", "exit", ",", "kill">>,
  digest   |-> <<"digits", "digits">>]

Messages     == DOMAIN Texts
AuditRecords == Messages \ {"auditctl", "digest"}
Commands     == [new |-> <<"ps", "t1">>, renewed |-> <<"touch", "t2", "watchdog">>]
Tasks        == DOMAIN Commands
=============================================================================
