---------------------------- MODULE SyscallTable ----------------------------
(***************************************************************************)
(* The table of system call handlers (secpoline.cpp): which handlers       *)
(* initialise_syscall_handlers registers, and the lists that               *)
(* secpoline_syscall_handler runs from beginning to end.                   *)
(***************************************************************************)
EXTENDS Integers, Sequences, FiniteSets, SequencesExt

\* MAX_SYSCALL_HANDLER_DEPTH, and the length of a list with its null at the end.
Depth == 2
Slots == Depth * 2 + 1

FD_CREATORS ==
    {"open", "dup", "dup2", "dup3", "socket", "accept", "accept4", "creat",
     "epoll_create", "epoll_create1", "inotify_init", "inotify_init1", "openat",
     "openat2", "signalfd", "timerfd_create", "eventfd", "eventfd2", "perf_event_open",
     "fanotify_init", "memfd_create", "userfaultfd", "open_tree", "fsopen", "fsmount",
     "fspick", "pidfd_open", "pidfd_getfd", "landlock_create_ruleset", "memfd_secret",
     "open_by_handle_at"}

FD_USERS ==
    {"dup", "read", "write", "close", "fstat", "lseek", "ioctl", "pread64", "pwrite64",
     "readv", "writev", "connect", "accept", "accept4", "sendto", "recvfrom", "sendmsg",
     "recvmsg", "bind", "listen", "getsockname", "getpeername", "fcntl", "flock",
     "fsync", "fdatasync", "ftruncate", "getdents", "fchdir", "fchmod", "fchown",
     "fstatfs", "finit_module", "readahead", "flistxattr", "fremovexattr", "fadvise64",
     "inotify_add_watch", "inotify_rm_watch", "openat", "openat2", "mkdirat", "mknodat",
     "fchownat", "futimesat", "newfstatat", "fchmodat", "fchmodat2", "faccessat",
     "faccessat2", "sync_file_range", "vmsplice", "utimensat", "signalfd", "signalfd4",
     "fallocate", "timerfd_settime", "timerfd_gettime", "preadv", "pwritev", "preadv2",
     "pwritev2", "fanotify_mark", "name_to_handle_at", "syncfs", "setns", "execveat",
     "statx", "pidfd_send_signal", "io_uring_enter", "io_uring_register", "open_tree",
     "fsconfig", "fsmount", "fspick", "mount_setattr", "quotactl_fd",
     "landlock_add_rule", "landlock_restrict_self", "process_mrelease", "cachestat",
     "unlinkat", "shutdown", "open_by_handle_at", "epoll_wait", "epoll_pwait",
     "epoll_pwait2", "setsockopt", "getsockopt", "fsetxattr", "fgetxattr", "readlinkat",
     "recvmmsg", "sendmmsg"}

FD_USERS_SECOND_ARGUMENT ==
    {"symlinkat", "process_madvise"}

FD_USERS_FIRST_SECOND_ARGUMENT ==
    {"dup2", "dup3", "sendfile", "tee", "kexec_file_load", "move_mount", "pidfd_getfd"}

FD_USERS_FIRST_THIRD_ARGUMENT ==
    {"renameat", "renameat2", "linkat", "splice", "copy_file_range", "epoll_ctl"}

NOT_IMPLEMENTED ==
    {"rt_sigreturn", "pkey_mprotect", "pkey_free", "rseq", "bpf", "io_submit",
     "process_vm_readv", "process_vm_writev", "seccomp", "vmsplice", "userfaultfd",
     "unshare", "clone3", "sigaltstack", "perf_event_open"}

\* Calls with a main handler of their own; most have the handler's name.
MainHandlers ==
    {<<s, s>> : s \in {"close", "close_range", "pipe", "socketpair", "open", "fork", "mmap",
                       "munmap", "brk", "mprotect", "mremap", "execve", "execveat",
                       "arch_prctl", "rt_sigprocmask", "rt_sigaction", "exit", "exit_group"}}
    \cup {<<"pipe2", "pipe">>, <<"openat", "open">>, <<"openat2", "open">>,
          <<"open_by_handle_at", "open">>, <<"vfork", "fork">>, <<"prctl", "arch_prctl">>}
    \cup {<<s, "not_implemented">> : s \in NOT_IMPLEMENTED}

Numbers ==
    UNION {FD_CREATORS, FD_USERS, FD_USERS_SECOND_ARGUMENT, FD_USERS_FIRST_SECOND_ARGUMENT,
           FD_USERS_FIRST_THIRD_ARGUMENT, {p[1] : p \in MainHandlers}, {"clone"}}

\* What initialise_syscall_handlers registers for a call, in its order.
If(b, func, how) == IF b THEN <<[func |-> func, how |-> how]>> ELSE <<>>

Registered(no) ==
    If(no \in FD_CREATORS, "save_untrusted_fd", "posthandler")
    \o If(no \in FD_USERS, "fd_first_argument", "prehandler")
    \o If(no \in FD_USERS_SECOND_ARGUMENT, "fd_second_argument", "prehandler")
    \o If(no \in FD_USERS_FIRST_SECOND_ARGUMENT, "fd_first_second_argument", "prehandler")
    \o If(no \in FD_USERS_FIRST_THIRD_ARGUMENT, "fd_first_third_argument", "prehandler")
    \o SetToSeq({[func |-> p[2], how |-> "main_handler"] :
                   p \in {q \in MainHandlers : q[1] = no}})
    \o If(no = "clone", "clone", "emulate_later")

\* The entry of a call in the table; ok says that no assertion has failed for it.
EmptyEntry == [pre |-> <<>>, main |-> "default", post |-> <<>>, emulated |-> FALSE, ok |-> TRUE]

\* Variant of add_handler: the break after the prehandlers is missing.
AddHandlerFallsThrough(s, e) ==
    CASE e.how = "main_handler" -> [s EXCEPT !.main = e.func, !.ok = @ /\ s.main = "default"]
      [] e.how = "prehandler" -> [s EXCEPT !.pre = Append(@, e.func),
                                           !.post = Append(@, e.func),
                                           !.ok = @ /\ Len(s.pre) < Depth]
      [] e.how = "posthandler" -> [s EXCEPT !.post = Append(@, e.func),
                                            !.ok = @ /\ Len(s.post) < Depth]
      [] OTHER -> [s EXCEPT !.emulated = TRUE, !.main = e.func]

add_handler(s, e) ==
    CASE e.how = "main_handler" -> [s EXCEPT !.main = e.func, !.ok = @ /\ s.main = "default"]
      [] e.how = "prehandler" -> [s EXCEPT !.pre = Append(@, e.func),
                                           !.ok = @ /\ Len(s.pre) < Depth]
      [] e.how = "posthandler" -> [s EXCEPT !.post = Append(@, e.func),
                                            !.ok = @ /\ Len(s.post) < Depth]
      [] OTHER -> [s EXCEPT !.emulated = TRUE, !.main = e.func,
                            !.ok = @ /\ s.pre = <<>> /\ s.post = <<>>]

Table == [no \in Numbers |-> FoldLeft(add_handler, EmptyEntry, Registered(no))]

generate_2d_handler_list ==
    [no \in Numbers |-> Table[no].pre \o <<Table[no].main>> \o Table[no].post]

=============================================================================
