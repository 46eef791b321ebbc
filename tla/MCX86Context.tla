---------------------------- MODULE MCX86Context ----------------------------
(* A guest of two contexts, a process and its child or thread.             *)
EXTENDS X86Context

AllCalls == {"exit", "exit_group", "nanosleep", "read", "poll", "waitpid", "kill", "sigreturn",
             "sigprocmask", "sigsuspend", "futex", "clone_thread", "fork", "compute"}
=============================================================================
