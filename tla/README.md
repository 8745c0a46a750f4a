# A TLA+ verification project for libpki

This directory holds TLA+ models of the state-changing parts of libpki (`src/src`). TLC checks them on small instances. TLAPS proves, for every instance, the object API's ownership invariants, that the object API implements an abstract lifecycle specification, that `PKI_NET_get_data` delivers the stream in order within `max_size`, and that the DN tokenizer's `sscanf` never writes past the buffers it allocates. `PROJECT.json` lists the components, the runs, the mutants that show each passing property can fail, the map from every definition to the source lines it models, the findings, the hazards and the theorems.

## The system and how its parts interact

| Part | Source | Module(s) |
|---|---|---|
| Generic object `PKI_X509` and its driver registry | `src/src/pki_x509.c` | `X509Object`, `X509ObjectProofs`, `ObjectLifecycle` (abstract), `X509LifecycleProofs` |
| ENGINE HSM keypair loader | `src/src/drivers/engine/engine_hsm_obj.c` | `HsmEngine` (extends `X509Object`), `HsmEngineProofs` |
| DN tokenizer `PKI_X509_NAME_new` | `src/src/openssl/pki_x509_name.c` | `NameTokenizer`, `NameReference`, `NameTokenizerProofs` |
| Name rendering and listing (`get_parsed`, `get_list`) | `src/src/openssl/pki_x509_name.c` | `NameList` (extends `NameReference`) |
| Log subsystem (`PKI_log_init`, `PKI_log_end`, `PKI_log`, the debug and error helpers, the sinks) | `src/src/pki_log.c` | `PkiLog`, `PkiLogProofs` |
| Error reporting (`__pki_error`) | `src/src/pki_err.c` | `PkiLog` (action `PkiError`) |
| Socket reading (`PKI_NET_get_data`, `PKI_NET_read`) | `src/src/net/sock.c` | `NetRead`, `NetReadProofs` |
| Socket descriptors (`_Listen`, `inet_connect`, `PKI_NET_open`, `_accept`, `_close`, `_sendto`) | `src/src/net/sock.c` | `NetFd` |

The object API is the core. An object belongs to a driver: `PKI_X509_new` asks the HSM (or the default HSM) for the callback table of a data type. The payload is created, duplicated and freed through that table. The ENGINE driver creates keypair objects through the same API, so `HsmEngine` extends `X509Object` and adds its loader as one more action. Names are parsed from text by the tokenizer and rendered back by `get_parsed`/`get_list`, so `NameList` applies those operators to the names the tokenizer builds. Logging is used by every part, and every error goes through `__pki_error`, which logs through `PKI_log_err_simple`. Logging is one of two parts that threads enter concurrently; `PkiLog` models it with several threads and the two mutexes. The other is the socket layer: descriptors are a process-wide table that every thread's `socket()`, `accept()` and `close()` share, which `NetFd` models. `NetRead` models one thread reading a connected socket against a peer that sends, closes or resets.

## Modules and their correspondence to the code

**X509Object.** The heap is sets of live blocks:
- `obj`: the shell at each address, or `Null`;
- `vals`: live payload blocks;
- `hdls`: payloads whose RSA ex_data key-handle blocks are allocated;
- `url`: live URL blocks and their locations;
- `hsms`: live HSM structures;
- `files`: persisted copies.

A freed address can be reused, as with malloc. The caller is the environment: `held` is the handles it holds and `mine` the payloads it owns. `CallerMakesValue` and `CallerFreesValue` create and release caller payloads.

Each API function is one action, covering the whole body from its early returns to its last assignment: `PKI_X509_new`, `_free`, `_new_value`, `_new_dup_value`, `_set_value`, `_dup_value`, `_dup`, `_set_hsm`, `_set_reference` and `_delete`. A call made inside a function (`new_value` calls `new` and then `set_value`) is inlined into the calling action. The registry `Registry[<<type, hsm>>]` is a constant: it is a static table in every driver. A callback table is abstracted to whether it has `free` and `dup`.

**HsmEngine.** `EngineNext` is `HSM_ENGINE_OBJSK_get_url`. It dispatches to `HSM_ENGINE_KEYPAIR_get_url`, which models:
- the NULL-driver return;
- the password source (`PasswordSource`);
- `PKI_X509_new`;
- an engine load that may fail;
- a stack allocation that may fail, followed by `PKI_X509_KEYPAIR_free`.

The variable `enginePw` records the password source, including "uninitialized".

**NameTokenizer.** `PKI_X509_NAME_new` is a loop over `status` and `pnt`. There is one action per branch of the loop:
- `SeekAttribute`: status 0;
- `InAttributeType`: status 1;
- `InAttributeValue` and `AfterEscape`: statuses 3 and 4;
- `RegisterAttribute`: the separator-or-end branch. It unescapes the token, runs `sscanf "%[^=]=%[^\\]"` and calls `X509_NAME_add_entry_by_txt`, including the failure return;
- `Finish`: the check after the loop.

`RegisterAttribute` computes the token as the code does: `TokenLen` is `len` (`pnt - start`, one more when the next character is the NUL), and `Token` is the `len` characters from `start`, un-escaped in place. `Unescape` and `Span` (one `%[^...]` match of `sscanf`) are written as a recursive function and as the least stop position, not as RECURSIVE operators, so that TLAPS can reason about them. The blank that `SeekAttribute` skips is the definition `SP`, not a literal: tlapm's SMT backend rejects any obligation that contains a string literal with a space.

Strings are sequences over a small alphabet. The OpenSSL call succeeds exactly when the key is a known type and the value is non-empty for a type with a minimum size (`AddSucceeds`). It is the only definition of that module modelled from OpenSSL's documented behaviour rather than from `src/`.

**NameReference.** The parse that spec section 4.3 describes, as a direct definition (`RefParse`). It is the reference the tokenizer is compared with.

**NameList.** `X509_NAME_oneline` (OpenSSL 1.0: "/" before each entry) is followed by the loop of `get_parsed` ('/' becomes ", "). `get_list` is the loop of sscanf `%[^=]=%[^,]` passes with its filter, its `strchr(',')` and its space skip, as the recursive operator `ListLoop`.

**PkiLog.** Each thread has a program counter `pc` placed at every `pthread_mutex_lock`, so that two threads can interleave between the lock calls. The variables are:
- `resMx` and `logMx`: the owners of `log_res_mutex` and `log_mutex`;
- `log`: `_log_st`;
- `syslogOpen` and `files`: the sinks' external state.

A call's arguments are chosen when it enters its body. `PKI_log_err` is the libpki macro around `PKI_log_err_simple`, so it locks `log_res_mutex`. The mutexes are default pthread mutexes, so they are not recursive.

**ObjectLifecycle.** What spec.md sections 3 and 4.1 promise about objects, with no registry, HSMs or heap: objects are created and destroyed, a payload has one owner (the caller or one live object), and it enters an object only by a transfer from the caller or as a fresh copy. `X509Object` defines `Lifecycle` as an instance of it under a refinement mapping: objects are shells, an object's payload is its shell's value, and the caller's payloads are `mine`. The property `ImplementsLifecycle` is `Lifecycle!LifecycleSpec`.

**PkiError.** `__pki_error` looks the code up in `__libpki_errors_st`. A code with a description is logged through `PKI_log_err_simple`, which takes `log_res_mutex`; any other code returns without logging. So in `PkiLog` the action is the error-logging call (`CallErr`) entered from the error path.

**NetRead.** The socket is a byte queue `inq`, and `sent` is everything the peer has sent, so the bytes consumed are the first `Len(sent) - Len(inq)`. The peer sends (up to `MaxStream` bytes), closes or resets. The reader's `pc` is `idle`, `select` (the `select()` loop of `PKI_NET_read`) or `recv`. One action per outcome:
- `SelectInterrupted` (EINTR, continue), `SelectFails`, `SelectTimesOut` (only with a timeout), `SelectReady`, `SelectSpurious` (readable, then nothing to read);
- `RecvData` (k ≤ `BUFF_MAX_SIZE` bytes), `RecvEof`, `RecvWouldBlock`, `RecvFails`.

`RecvData` includes what `get_data` does with the chunk (`GotData`): it appends it, or, past `max_size`, appends `max_size - buf->size` bytes and returns (`Truncate`). Every loop exit ends in `Return`: an empty buffer becomes NULL. Signals and spurious wake-ups are bounded by `MaxIntr`.

**NetFd.** The kernel's table `fdt` maps a descriptor number to the socket on it. `socket()` and `accept()` take the lowest free number (`Allocate`), as POSIX requires, and `close()` frees whatever the number names at that moment. Each thread runs one call at a time, with one step per system call that allocates or frees a descriptor, so the other threads' calls interleave between them. `_Listen` is the `getaddrinfo` candidate loop (`ListenSocket`, `ListenSetsockopt`, `ListenBind`), including its close paths. `held[t]` is the set of descriptor–socket pairs a call returned to thread `t`.

## Runs

| Run | Result | What it shows |
|---|---|---|
| `x509_ownership` | pass | Over any call sequence on 2 shells, 3 payloads and 2 URLs, every payload and URL has exactly one owner (`ValueOwnership`, `RefOwnership`, `TypeOK`), and the API implements `ObjectLifecycle` (`ImplementsLifecycle`). |
| `x509_handle_leak` | violation | `set_value` on a keypair skips the key-handle cleanup that `free` does. |
| `engine_ownership` | pass | The ENGINE loader mixed with the API keeps value ownership. |
| `name_well_formed` | pass | Every input of up to 7 characters terminates (`Terminates`). Every escape-free input the reference accepts is built exactly as the reference builds it (`AcceptsWellFormed`). Whenever the scanner is inside a value, the key and value `sscanf` would split from the token fit, each with its NUL, in the `len`-byte buffers allocated for them (`ScanFitsBuffers`). |
| `name_matches_reference` | violation | The tokenizer accepts `==`, absorbs trailing separators, drops entries and truncates at '\\', where the spec's parse does not. |
| `name_released_on_failure` | violation | A failed add returns NULL without freeing the name. |
| `name_list_well_formed` | pass | Render-then-list returns the registered attributes under every filter, for escape-free well-formed names. |
| `name_list_round_trip` | violation | A '/' inside a value is rendered as ", " and re-split by `get_list`. |
| `log_locking` | pass | Two threads logging and reconfiguring forever: there is no wait-for cycle and no deadlock, and no sink callback overlaps another or a reconfiguration. The action property `ProtectedWrites` says that every step changing `_log_st`, the system log state or a log file is taken by the owner of `log_res_mutex`, and, for `_log_st` and the system log, by the owner of `log_mutex` too. |
| `log_self_wait` | violation | `PKI_log_init` with inconsistent token and signature flag blocks on its own `log_res_mutex`. |
| `net_get_data` | pass | Whatever the peer does and however recv() splits the stream, `get_data` returns the stream in order (`InOrder`), within `max_size` (`BoundedBuffer`), and returns NULL only after consuming nothing (`NullOnlyIfNothingRead`). With a timeout it always returns (`GetDataReturns`). |
| `net_listen_double_close` | violation | `_Listen` closes its descriptor twice when `bind` fails. Between the two closes, another thread's `socket()` gets the same number, and the second close shuts that thread's socket (`DescriptorsIntact`). |

Every property of a passing run has a mutant in `PROJECT.json`: a faulty variant of a mapped definition, such as a dropped guard, a missing reset or a skipped step. TLC finds each of those variants violating the property.

## Bounds

**Object runs.** Two shells, three payloads, two URLs, two locations, two HSMs (the default one and one other) and two types (keypair and one other). Two shells let `dup` and `set_value` alias one another. Three payloads let a caller's payload, an object's payload and a duplicate exist together. Symmetry is declared over the interchangeable addresses.

**Tokenizer run.** All strings of up to 7 characters over `a = + , \ space`. That is long enough for `a=a+a=a` and `a=a,a=a`, and for escapes, leading spaces and trailing separators.

**List runs.** The escape-free plain alphabet with ',' as the separator, and, for the violation run, an alphabet with '/'.

**Log run.** Two threads, two levels and one file path, with symmetry on the threads. Two threads are enough for a lock-order cycle between two mutexes.

**Read run.** A stream of up to 4 bytes over two values and a 2-byte `tmp_buff`. `max_size` is 0 (no limit) or 3, the timeout is 0 or 1, and there is one signal or spurious wake-up. A 4-byte stream through a 2-byte buffer needs several `recv()` calls. A limit of 3 is crossed in the middle of a chunk, so the truncation keeps part of a chunk. Two calls in a row read the two halves of the stream.

**Descriptor run.** Two threads (symmetric), descriptors 3 and 4, two `getaddrinfo` candidates and four sockets. That is the smallest instance in which one thread's candidate loop closes a descriptor that the other thread's `socket()` reuses.

## Fairness

The tokenizer run assumes `WF_vars(Next)`. `PKI_X509_NAME_new` is a single-threaded loop that nothing else can block, so it keeps stepping until it returns. The log model assumes no fairness: pthread mutexes promise none. So the log runs check only safety and deadlock freedom, and the absence of a wait-for cycle is the invariant `NoWaitCycle`. The object models also assume no fairness, because their steps are the caller's choices.

`NetRead` assumes weak fairness of the reader's `SelectTimesOut`, `SelectReady`, `RecvData`, `RecvEof`, `RecvWouldBlock` and `RecvFails`:
- A blocked `select()` with a timeout returns when the socket becomes readable or the timeout expires.
- A readable socket's `recv()` returns.

Signals, errors and the peer get no fairness. `GetDataReturns` is stated only for calls with `timeout > 0`: with a NULL timeval, a silent peer blocks the call, as `select()` is asked to. It relies on the peer sending finitely many bytes (`MaxStream`), because the timeout bounds each silent gap, not the call.

## What is proved

`X509ObjectProofs` proves, with TLAPS, for every value of the constants that satisfies `RegistryAssumption`:
- `Spec => []TypeOK` (`TypeCorrect`);
- `Spec => []ValueOwnership` (`ValueOwnershipInvariant`);
- `Spec => []RefOwnership` (`RefOwnershipInvariant`).

`X509LifecycleProofs` proves `Spec => ImplementsLifecycle` (`Refinement`). Under the refinement mapping, the initial state maps to `LifecycleInit` (`InitRefines`). Each action then maps to an abstract step (`NewRefines`, `SetValueRefines`, `DupValueRefines`, ...):
- `PKI_X509_new_value` is `Create` with the caller's payload;
- `PKI_X509_dup` is `Create` with a fresh copy;
- `set_value` is `Store`, `dup_value` is `Copy` and `free` is `Destroy`;
- `set_hsm`, `set_reference` and `delete` change nothing the abstract spec sees.

The steps that need `Fresh` use the ownership invariant. A payload the allocator hands out is not owned by the caller or by a live object, because every live payload has exactly one owner.

`NetReadProofs` proves `Spec => []InOrder`, `Spec => []BoundedBuffer` and `Spec => []NullOnlyIfNothingRead`. These hold for every stream length, `BUFF_MAX_SIZE`, set of `max_size` values and set of timeouts that satisfies `NetReadAssumption`. Its inductive invariant adds the following to `TypeOK`:
- the queue is the unconsumed suffix of the stream (`Stream`);
- a running call's result is NULL;
- a result's length, added to the call's start, stays within what has been consumed.

The last one is needed because the peer keeps appending to `sent` after a call returns. The `RecvData` step rests on three sequence lemmas, each proved from the library's `SubSeq` facts:
- `QueueSplit`: the queue split after k bytes;
- `PrefixOfPiece`: the truncated chunk;
- `AdjacentPieces`: the buffer grown by a chunk.

None of the object invariants is inductive on its own. For example, `PKI_X509_new` relies on the allocator handing out only unused addresses: the new value must not be held already, and the new shell must not be in `held`. The inductive invariant `IInv` is `TypeOK`, plus `HeldAllocated` (every held handle is a live shell), plus both ownership invariants. The proof has one lemma per action showing that `IInv` is preserved (`NewIInv`, `FreeIInv`, `SetValueIInv`, `DupIInv`, ...). `NextIInv` combines them, and `IInvInvariant` closes the argument by induction with PTL.

`PkiLogProofs` proves `Spec => []NoWaitCycle` (`NoWaitCycleInvariant`), `Spec => []SinkExclusive` (`SinkExclusiveInvariant`) and the action property `Spec => ProtectedWrites` (`ProtectedWritesTheorem`). These hold for every set of threads, levels and paths that satisfies `LogAssumption`, and for every set `CallArgs` of `PKI_log_init` arguments. The run uses only consistent arguments; the theorems also cover a token without the signature flag, whose `PKI_log_err` blocks on the thread's own `log_res_mutex`. Its inductive invariant `IInv` is `TypeOK` plus three facts:
- each mutex is owned exactly by the thread between its lock and its unlock (`HoldsRes(t) <=> resMx = t`, `HoldsLog(t) <=> logMx = t`);
- a `PKI_log_err` entered from `PKI_log_init` (`ret[t] = "i_unlock"`) is still waiting at its lock (`pc[t] = "e_res"`).

Neither property is inductive alone. `NoWaitCycle` says nothing about who owns a mutex, and a step can hand a mutex to a thread that another thread waits for. With `IInv`, a waiting thread waits for the owner, and the owner of `log_mutex` also owns `log_res_mutex`. The owner of `log_res_mutex` waits either for nothing or for itself. So no two threads wait for each other. `ProtectedWrites` follows from `IInv` step by step: `InitBody`, `EndBody` and `WriterAdd` are the only steps that write, and they start at places inside the locks. `ErrLevel`, a `CHOOSE` of the least level, is shown to be a level through the well-founded minimum of `WellFoundedInduction` (`ErrLevelType`).

`HsmEngineProofs` proves `EngineSpec => []ValueOwnership` (`EngineValueOwnership`) and `EngineSpec => []RefOwnership` (`EngineRefOwnership`), with the ENGINE loader interleaved with every object call. The invariant is the object `IInv` plus the type of `enginePw`. `LoaderIInv` shows that all three loader paths preserve `IInv`:
- the object API refuses the keypair type;
- the engine load fails and leaves a leaked shell, which holds no value;
- the loaded key is stored in a fresh shell.

The other steps reuse `NextIInv` from `X509ObjectProofs`.

`NameTokenizerProofs` proves `Spec => []TypeOK` (`TypeCorrect`) and `Spec => []ScanFitsBuffers` (`ScanFitsBuffersInvariant`) for every alphabet, separator set, input length and type table that satisfies `TokenizerAssumption`. `TypeOK` is inductive once the un-escaping and the `sscanf` match are known to return strings over the alphabet (`UnescapeType`, `ScanType`). `ScanFitsBuffers` is not inductive: in a value, nothing in it says that the token contains an '='. The inductive invariant `IInv` is `TypeOK`, plus `start <= pnt`, plus `EqInToken`: while the scanner is in a value (status 3 or 4), some `in[i] = '='` with `start <= i < pnt`, namely the '=' that ended the type. TLC checked `EqInToken` on the tokenizer run before the proof. From it, the token holds an '=' before un-escaping. The un-escaping keeps that '=' and never lengthens the string (`OutBounds`). A `%[^=]` match then stops before that '=', and the value after it is shorter still (`ScanFits`).

The un-escaping is a fold over the characters. Its lemmas are proved without the library's induction theorems, whose operator parameter the provers cannot instantiate:
- `FoldExists` builds the fold's function explicitly, by the least index where it would fail (`NatLeast`, from the well-founded minimum of `WellFoundedInduction`);
- `EscFix` and `OutFix` show that the `LET`-defined functions are that fold;
- `OutBounds` and `OutType` bound it by a least counterexample again.

`SpanEndMin` and `SpanType` show that a match ends at the first stop character.

## What is only model-checked

- **Liveness.** `Terminates` and `GetDataReturns` involve fairness and ENABLED, which the prover does not handle.
- **The descriptor model.** `NetFd` is checked by one violation run.
- **`AcceptsWellFormed` and `RoundTripWellFormed`.** They compare the tokenizer and the renderer with `NameReference` and `NameList`, which use RECURSIVE operators (the pieces and list loops). Proving them would also need induction over the input string.
- **`NoSelfWait`.** It is a violation run. The code breaks it, so there is nothing to prove.

## What is not modelled, and why

- **Read-only accessors** of the object API (`get_*`, `is_signed`, `print_parsed`) and `set_modified`. They change no state of the model.
- **A check on `set_hsm`.** `PKI_X509_set_hsm` frees the HSM it is given and then stores it (`pki_x509.c:266`). The model keeps this behaviour, but no run checks it, because it shows in a single step. It is listed as a hazard.
- **The `cred` field.** No code in `src/` sets it, so the double free through `dup`'s shared `cred` is listed as a hazard only.
- **`PKI_X509_NAME_add`, `_cmp`, `_dup`, `_get_digest`, `list_free` and the RDN accessors.** These are thin OpenSSL wrappers. The leak of `my_dup` in `_add` is listed as a hazard.
- **`PKI_log_hexdump`, `_get_info_string` and the entry-sign stubs.** These are formatting code, or always return an error.
- **`PKI_strerror` and the message formatting of `__pki_error`.** They are text only; the logging call is modelled.
- **`PKI_NET_write`, `_Write`, `_Read`, `_Shutdown`, `_Gethostbyname` and `PKI_NET_recvfrom`.** Each passes one system call through and keeps no state.
- **The descriptor leak of `PKI_NET_sendto`.** It happens when `sendto` is called with `sock < 0`. `NetFd` keeps the leak, but it shows in a single call, so it is listed as a hazard.
- **Two engine bugs.** A failed engine load leaks the new object, and with no credential the engine is given an uninitialized password. `HsmEngine` keeps both behaviours, but each shows in a single call, so they are listed as hazards and no run checks them.

## Plan for later work

1. Model `PKI_X509_NAME_add` as an action on the tokenizer's entries, and check its leak and its `+` handling.
2. Add the open/closed state of a sink to `PkiLog` and state the write-after-`PKI_log_end` contract.
3. Add a no-leak property to `NetFd` (every allocated descriptor is held or being used by a call), and a passing run for the fixed `_Listen`.
4. Compose `NetFd` and `NetRead`: a reader whose descriptor is closed by another thread.
