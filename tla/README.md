# TLA+ models of libevent's utility layer (libevent-linux)

This directory holds TLA+ models of the parts of libevent that this repository ships under `src/`. It also has the TLC configurations that check them. The repository holds libevent's portable utility layer, not the reactor:

| Source | What it is |
|---|---|
| `src/unnamed/part_000` | `arc4random.c`, the ARC4-based secure PRNG |
| `src/unnamed/part_003` | `evutil_rand.c`, the `evutil_secure_rng_*` API over it |
| `src/evutil_time.c` | time helpers and the monotonic timer |
| `src/unnamed/part_005` | `time-internal.h`, `struct evutil_monotonic_timer` |
| `src/evutil.c` | sockets, address parsing and printing, getaddrinfo front end, weak RNG, string helpers |
| `src/unnamed/part_004` | `event2/util.h`, the public contract |
| `src/unnamed/part_001` | the `time-test` sample, a timer that re-arms itself |
| `src/unnamed/part_002` | `CMakeLists.txt` |

## Inventory

### Secure PRNG (`part_000`, `part_003`)

**State.** These are per-process statics:
- `rs`: the RC4 permutation and indices.
- `rs_initialized`.
- `arc4_stir_pid`: the pid that last seeded.
- `arc4_count`: bytes left before a reseed.
- `arc4random_urandom_filename`.

**Operations.**
- `evutil_secure_rng_get_bytes` → `arc4random_buf`
- `evutil_secure_rng_add_bytes` → `arc4random_addrandom`
- `evutil_secure_rng_init` → `arc4_stir`
- `evutil_secure_rng_set_urandom_device_file`

**Interactions.** `arc4_stir` seeds from `getrandom(2)`, then the urandom devices, then `/proc/sys/kernel/random/uuid`. All entry points hold `ARC4_LOCK_`. The lock is installed later by `evutil_secure_rng_global_setup_locks_`.

**Hard parts.**
- A seeding that fails. It is ignored on the `get_bytes` path.
- `fork()`. It copies the whole state, and only the `arc4_stir_pid` check forces the child to reseed.
- The reseed counter across calls of any length.

**Correct means.**
- No byte comes from an unseeded stream.
- No two processes produce the same stream bytes.
- No byte is drawn more than `BYTES_BEFORE_RESEED` bytes after the last platform seeding, past the `DISCARD` bytes that follow it.

### Monotonic timer (`evutil_time.c`, `time-internal.h`)

**State.**
- `monotonic_clock`: a clock id, or -1 for gettimeofday.
- `adjust_monotonic_clock`.
- `last_time`.

**Operations.**
- `evutil_monotonic_timer_new`: zero-fills the struct.
- `evutil_configure_monotonic_time`: picks COARSE, MONOTONIC or the fallback, depending on the flags and on which `clock_gettime` calls work.
- `evutil_gettime_monotonic`.
- `evutil_monotonic_timer_free`.

**Interactions.** The timer reads the host's clocks. The wall clock can be stepped backwards.

**Hard parts.** The fallback ratchet `adjust_monotonic_time` must neither go backwards nor lose or invent time, and it relies on `timeradd`/`timersub` carries.

**Correct means.**
- The values never decrease (util.h: "Monotonic time is guaranteed never to run in reverse").
- On the fallback path, elapsed time is exactly the wall clock's forward movement.
- Nothing in the code stops a second `evutil_configure_monotonic_time` on a timer in use. It rewrites only `monotonic_clock` and keeps `last_time` and the offset.

### Time conversions (`evutil_time.c`)

`evutil_tv_to_msec_` has an overflow guard and rounds up. `evutil_usleep_` and `evutil_date_rfc1123` are a system call and formatting.

### Address text (`evutil.c`)

- `evutil_inet_ntop`, `evutil_inet_pton`, `evutil_inet_pton_scope`
- `evutil_parse_sockaddr_port`, `evutil_format_sockaddr_port_`, `evutil_sockaddr_cmp`
- the ASCII helpers

These are pure functions. Correct means that parse and print round-trip, malformed text is rejected, and an output buffer that is too small makes the call fail rather than truncate.

### getaddrinfo front end (`evutil.c`)

- the servname parser
- `evutil_getaddrinfo_common_`, `evutil_new_addrinfo_`, `evutil_addrinfo_append_`
- the numeric-port and socktype workarounds
- `evutil_check_interfaces`: an `AI_ADDRCONFIG` probe whose results are cached in globals

Correct means that the result list holds the requested families and socktypes, and that the workarounds neither lose nor duplicate entries.

### Socket and descriptor helpers (`evutil.c`)

- `evutil_socketpair` and the ersatz loopback version
- `evutil_socket_`, `evutil_accept4_`, `evutil_make_internal_pipe_`, `evutil_eventfd_`
- the non-blocking and close-on-exec flags
- the connect helpers
- the file helpers `evutil_open_closeonexec_` and `evutil_read_file_`

Hard parts: a foreign connector can race the ersatz socketpair, and every `fcntl` that fails after a descriptor exists must lead to a close. Correct means that no descriptor leaks on any failure path and that the pair is connected to itself. For `evutil_read_file_`, another process may grow or shrink the file after its `fstat()`: correct means the reads stay inside the buffer, every exit closes and frees, and the call returns.

### Weak RNG (`evutil.c`)

A 31-bit LCG, and a range function built on rejection sampling. Correct means the values are in range and the loop terminates.

### ASCII helpers (`evutil.c`)

- The `EVUTIL_IS*_` bit tables and `IMPL_CTYPE_FN`.
- The case tables behind `EVUTIL_TOLOWER_` and `EVUTIL_TOUPPER_`.
- `evutil_ascii_strcasecmp` and `evutil_ascii_strncasecmp`.
- `evutil_rtrim_lws_` and `evutil_hex_char_to_int_`.

The address parsers rely on them. Correct means they agree with the "C" locale and, per util.h, behave "as strcasecmp".

### time-test sample (`part_001`)

A timeout callback re-adds its own event on an event base. The event base itself is not under `src/`, so it is modelled from `spec.md`.

## Modules

### Arc4Random (`Arc4Random.tla`, `MC_Arc4Random.tla`)

**State.**
- `rng[p]`: the PRNG statics of each process `p`.
- `alive`: the processes that exist.
- `nextToken`: fresh names for seed material.
- `emitted`: every byte handed out, as `[proc, mix, pos]`.

**The stream's abstraction.**
- `mix` is the sequence of blocks mixed into the permutation. Each block is `[kind: "os"|"user", id, at]`, where `at` is the stream position at which it was mixed.
- `pos` is the number of bytes drawn so far.
- Two bytes are equal exactly when their `(mix, pos)` are equal. This holds because RC4 is deterministic in its key schedule and its position.

**Seeding.** It is a nondeterministic outcome:
- `ok`: a full 32-byte seed and the `DISCARD` bytes after it.
- `fail`.
- `partial`: the uuid file mixes 16 bytes and then fails.

Sources in the constant `Reliable` never fail.

**Actions.**
- Each entry point is one atomic action, because it runs under `ARC4_LOCK_`.
- `GetBytes` includes `arc4random_buf`'s whole loop, and any reseeds in it, as the recursive operator `BufLoop`.
- `Fork` is the host copying a process.

**Runs.**
- `Arc4Random_safety.cfg` (pass). `getrandom` is reliable. Three processes, `BYTES_BEFORE_RESEED = 2`, `DISCARD = 1`, requests of 0, 1 or 3 bytes (3 crosses a reseed), and additions of 0, 1 or 300 bytes (300 is two chunks). Seed tokens are capped at 4 and positions at 7. Symmetry is over the two child pids.
- `Arc4Random_NoUnseededOutput.cfg` (violation): no source is reliable.
- `Arc4Random_ForkSafety.cfg` (violation): no source is reliable.

### MonotonicTimer (`MonotonicTimer.tla`, `MC_MonotonicTimer.tla`)

**State.**
- The timer struct.
- `wall` and `mono`: the host's clocks.
- `monoWorks`: whether `clock_gettime` works.
- `returned` and `lastRaw`: the last value returned and the raw reading behind it.
- `readClock`: the clock of that read. It is `NoClock` once the timer has been set to another clock.

**Actions.**
- `ConfigureMonotonicTime` may be taken any number of times, as the code allows. `ChooseClock` is its clock choice.
- `GettimeMonotonic` requires a configured timer, which util.h makes the caller's duty.
- The host steps: `WallTick`, `WallStep` (a clock step in either direction) and `MonoTick`.

**Refinement.** `MonotonicClock.tla` is the abstract clock that util.h describes. It has a value `now` and a `source`:
- `Read` never returns a value earlier than `now`;
- `Rebase` switches to another source and forgets `now`.

MonotonicTimer instantiates it as `Abstract` with the mapping `now <- clockNow`, `source <- timer.monotonic_clock`. Here `clockNow` is the last value read, if it was read from the current clock. The property `MonotonicPerClock == Abstract!Spec` states that the timer implements the abstract clock.

**Scaling.** A second is 2 µs and a µs is 2 ns, so the carries and the truncation happen.

**Bounds.** Wall seconds go up to 2 and outputs up to 4. Every flag set is tried. The timer is checked in the `time` run, together with TimeConv (see MC_Time below).

### Descriptors (`Descriptors.tla`, `MC_Descriptors.tla`)

**What it models.** `evutil_socket_`, `evutil_accept4_`, `evutil_make_internal_pipe_` and `evutil_eventfd_`. Each first tries the call that sets the flags atomically. If that fails, it creates the descriptor plainly and sets the flags with one `fcntl` per flag and descriptor. The public `evutil_make_socket_nonblocking`, `evutil_make_socket_closeonexec`, `evutil_socket_connect_` and `evutil_closesocket` are modelled too, and so is `evutil_open_closeonexec_` as the code does it (evutil.c:61-77): `open` with `O_CLOEXEC` is returned when it succeeds or fails with `EINVAL`, and any other error falls through to a plain `open` and one `fcntl(F_SETFD)`. The comment at line 64 says the opposite, that `EINVAL` falls through; the `open_cloexec_einval` run shows the difference.

**State.**
- `fdOpen`: the open descriptors, a subset of `Fds`.
- `nonblock`, `cloexec`: the flags of each open descriptor.
- `kernelFlags`: whether the kernel accepts the flag-taking calls.
- `call`: the helper in progress. It records the function, the step (`pc`), the flags asked for and the descriptors made.
- `owned`, `wanted`: what the helpers returned to the caller, and with which flags.
- `inherited`: what a forked and exec'd child inherited.

**Actions.**
- Every system call is a step of its own, and any of them may fail.
- A failed `fcntl` closes what the helper made.
- `ForkExec` is another thread of the process forking and exec'ing between any two steps.

**Bounds.** Three descriptors, as model values under symmetry. Both kernels.

### ErsatzSocketpair (`ErsatzSocketpair.tla`, `MC_ErsatzSocketpair.tla`)

**What it models.** `evutil_ersatz_socketpair_`: listen on loopback, connect, accept, then compare the accepted peer with the connector's name.

**Actions.**
- Each system call is an action that may fail into `tidy_up_and_fail`.
- A foreign local process (`ForeignConnect`) may connect to the listener at any time while it listens.
- The accept queue holds `Backlog = 2` connections.
- Ports come from a set of three, and the kernel never gives one port twice.

The call stops after it returns. In `MC_Sockets` that final state stutters, so the joint run still checks Descriptors for deadlock.

### InetText (`InetText.tla`, `MC_InetText.tla`)

`evutil_inet_ntop` and `evutil_inet_pton` are operators over texts. A text is a sequence of one-character strings.

**The scanners.** `strtol(…, 16)`, the `sscanf("%u.%u.%u.%u%c")` test and the hex-digit scans are RECURSIVE operators. They keep the code's leniency: a `0x` prefix, and values clamped instead of overflowing.

**The IPv6 parser.** It is the loop of `evutil_inet_pton` word by word (`PtonWords`). The gap is opened with the code's `memmove`/`memset` arithmetic (`OpenGap`, `FinishWords`).

**Scaling.** IPv6 has `NWORDS = 4` words instead of 8. The longest-zero-run search and the `::ffff:a.b.c.d` test are written for `NWORDS`. IPv4 addresses are byte 4-tuples, because TLC's integers are 32-bit signed.

**The reference.** `RefInet6` is the RFC 4291 text grammar. `IPv4Text` is the RFC 3986 dec-octet. Both are written independently of the code.

**Harnesses.**
- `NtopSpec` holds one ntop call: a family, an address and a buffer size.
- `PtonSpec` types a text one piece at a time, from a set of pieces, up to `MaxPieces`. Every prefix is a pton input.
- `Spec` joins the two. The variable `call` tells which harness a state belongs to.

### SockaddrText (`SockaddrText.tla`, `MC_SockaddrText.tla`)

`evutil_inet_pton_scope`, `evutil_parse_sockaddr_port`, `evutil_format_sockaddr_port_` and `evutil_sockaddr_cmp` are built on InetText.

**Interfaces.** `if_nametoindex` is the constant map `IfIndex`, in which "lo" is 1.

**The comparison.** `evutil_sockaddr_cmp` compares `s_addr` and `sin_port` as integers. On a little-endian host these are network-order bytes read backwards, and `AddrBytes`/`PortAsRead` model exactly that.

**The reference.** `RefParse` is the grammar of the five forms documented in `util.h`.

**Harnesses.** `SockSpec` joins three:
- `FormatInit`: the formatter's output for a sockaddr becomes `text`.
- `ParseInit`/`ParseType`: texts typed from pieces, for each `*outlen` of 16 and 28.
- `CmpInit`: every triple of sockaddrs from a small set.

### AddrInfo (`AddrInfo.tla`, `MC_AddrInfo.tla`)

AddrInfo extends SockaddrText. It models the getaddrinfo front end of `evutil.c` on a Linux build. On Linux `AI_ADDRCONFIG` and `AI_NUMERICSERV` are native, so the `#ifndef` fallbacks of `evutil_getaddrinfo` are not compiled.

**Lists.** A `struct addrinfo` list is a sequence of entries `[sa, socktype, protocol]`. `evutil_new_addrinfo_` makes one entry, or a TCP and a UDP entry when the hints give neither. Each `mm_calloc` may fail. The constant set `Lefts` gives the number of allocations that succeed before one fails. `AddrinfoAppend` is sequence concatenation.

**evutil_getaddrinfo_common_.** `GaiCommon` and its layers `CommonParsed` and `CommonCases` follow the code's order of early returns:
1. NULL node and NULL servname;
2. the family check;
3. the servname, through `parse_numeric_servname` (the `long` to `int` cast kept at `INT_BITS`/`LONG_BITS`), then `getservbyname` over the constant `Services`;
4. the NULL node answers;
5. an IPv6 literal, with its zone;
6. an IPv4 literal;
7. `AI_NUMERICHOST`, else `EVUTIL_EAI_NEED_RESOLVE`.

**The host's getaddrinfo.** It is RFC 3493's, written independently of the code (`GaiRef`, `Conforming`), over a constant DNS table. A host may have two quirks (`WithQuirks`):
- "numport": a numeric service is refused without a socket type;
- "protocol": entries keep the hints' protocol.

**evutil_getaddrinfo.**
- `TestForHacks` makes the three probe calls of `test_for_getaddrinfo_hacks` on the host. `HacksFrom` draws the two needs from their answers.
- `EvutilGetaddrinfo` applies the numeric-port workaround (`PortHackFrom`, the unlink loop of `apply_numeric_port_hack` with its skip) and the socket-type workaround (`SocktypeHackFrom`, whose `mm_malloc` may fail).

**evutil_adjust_hints_for_addrconfig_.** It is a multi-threaded state machine. Each thread's step is one action:
- `AdjustStart`;
- `CheckInterfaces`;
- `SetChecked`, which sets `have_checked_interfaces` before probing;
- `ScanIfaddr`, one `getifaddrs` entry per step;
- `Probe4` and `Probe6`, the UDP-connect fallback;
- `Decide`. It reads `had_ipv4_address` and `had_ipv6_address` in one step, where the code reads them one after the other (evutil.c:929-931). This coarsens the interleavings: every behaviour of the model is one of the code, so the race that `addrconfig_race` finds is real, but races between the two reads are not explored;
- `Again`.

The statics `have_checked_interfaces`, `had_ipv4_address` and `had_ipv6_address` are shared variables with no lock, as in the code. The ghost variable `probed` records the flags when a probe finishes.

**Harnesses.** `AllSpec` joins the InetText and SockaddrText harnesses with three of AddrInfo's. The variable `call` tells them apart:
- "common": one call of `evutil_getaddrinfo_common_` with every argument and budget;
- "getaddrinfo": a host with a set of quirks. `GaiCall` runs the first `evutil_getaddrinfo`, which tests for the hacks. A later call would read the cached needs and answer alike, so there is one call per behaviour.
- "addrconfig": threads in `evutil_adjust_hints_for_addrconfig_`.

**Bounds (MC_AddrInfo).**
- Nodes: a name in the DNS table, a name not in it, "1.2.3.4" and "::1%lo".
- Servs: "80", "0", "65536", a known name for TCP and UDP, a known name for UDP only, and an unknown name.
- Hints: all four families (including an unsupported one); socket types 0, stream and datagram; protocols 0 and UDP; five flag sets.
- Allocation budgets: 0, 1, 2 and 9.
- Every set of quirks.
- Interfaces: none; loopback and private IPv4; link-local and global IPv6. Their order makes a scan find IPv4 before IPv6.
- `INT_BITS = 20` and `LONG_BITS = 24`, so "1048656" (2^20 + 80) is in a `long` but not in an `int`, as "4294967376" is on LP64.

**Evaluation.** TLC's profiling mode (`-coverage`) does not cache the value of a LET definition or an operator argument: it evaluates it again at every use. The parsers and the reference grammars use their local values many times, often recursively. The operator `Once(v, F(_))` of InetText therefore binds a local value through a one-element set, so it is computed once. It models a local variable of the C code that is read several times. It does not change any result.

### WeakRand (`WeakRand.tla`, instantiated in `MC_Time.tla`)

**The generator.** It is taken at `W = 5` bits: the state is reduced mod 2^W, and the multiplier and addend with it. The low W bits of an LCG mod 2^31 are this LCG mod 2^W, so the reduction is exact for those bits.

**The seed.** `state->seed` is a `uint32_t`, so the model gives it one bit more than the outputs. A seed of 0 is replaced by a clock value, which may be any value.

**Actions.**
- `WeakrandSeed`.
- `Weakrand`.
- `RangeBegin`: `evutil_weakrand_range_` computes its divisor.
- `Draw`: one pass of its `do … while` loop.

**Bounds.** `Tops` = {1, 3, 16, 31} spans the range. 31 is `WEAKRAND_MAX`, so its divisor is 1.

### TimeConv (`TimeConv.tla`, `MC_TimeConv.tla`)

**What it models.** `evutil_tv_to_msec_`, with `long` at 21 bits. Signed overflow wraps, as the builds do, so an overflow shows as a wrong count.

**Inputs.** Each state is one call. `tv_sec` is taken around `MAX_SECONDS_IN_MSEC_LONG` = 1047. `tv_usec` is taken around every whole millisecond and around 1000000.

### Ascii (`Ascii.tla`)

**Characters.** A character is its byte value and a C string the sequence of its bytes before the NUL. `At(s, i)` reads the NUL past the end.

**Char signedness.** Plain `char` is signed on x86 and unsigned on ARM Linux. The comparison loops compare `char`s, so their operators take the signedness as an argument, and the properties quantify over both.

**Tables.** Each table is the source's literal. TLC's integers are 32-bit signed, so a `uint32_t` word is held as the `int32` with the same bits (0xffffffff is -1), and `Bit` reads bit 31 as the sign. The case tables are the identity except for the one row of 32 that the source changes. That row is written out.

**Operators.** `StrcasecmpFrom`, `StrncasecmpFrom` and `TrimFrom` are RECURSIVE operators, one call per pass of the C loops.

**Harness.** Each state is one call. It is either a byte in 0..255, for the character functions, or two strings and a count, for the string functions. The strings are up to two bytes over tab, space, 'A', '[', 'a' and byte 200:
- '[' sits between 'Z' and 'a', so it tells folding to lower case from folding to upper case;
- byte 200 tells signed from unsigned `char`.

### ReadFile (`ReadFile.tla`, instantiated in `MC_Sockets.tla`)

**What it models.** `evutil_read_file_` (evutil.c:91-140): open, `fstat`, `mm_malloc(st_size + 1)`, the read loop, and the close with its three returns. `evutil_open_closeonexec_` is Descriptors' helper; here it either yields a descriptor or fails.

**State.**
- `file`: the file's bytes, changed by another process.
- `rfPc`: the next system call.
- `fdIsOpen`, `mem`: the descriptor and the buffer, which every exit must release or hand over.
- `stSize`, `readSoFar`, `lastRead`: `st.st_size`, `read_so_far` and `r`.
- `ret`, `contentOut`: the result and `*content_out`.
- `changed`: a history variable, set when the other process touched the file during the call.

**Actions.**
- `Open`, `Fstat` and `Malloc` each succeed or take their failure exit.
- One turn of the loop is `ReadData` (k > 0 bytes, at most what was asked for and what the file holds past the offset), `ReadEof` (0) or `ReadError` (-1). `Finish` is the code after the loop.
- `Append1` and `Truncate` are the other process. It acts only while the call is in progress.

**Bounds.** Files of up to three bytes over {0, 1}. `EV_SSIZE_MAX` is scaled to 3, so a three-byte file takes the size exit.

### MC_Time (`MC_Time.tla`, `Time.cfg`)

MC_Time joins four small harnesses in one specification, so that one run checks them all:
- the timer;
- the conversion;
- WeakRand, as the instance `WR`, at 5 bits;
- Ascii.

The variable `harness` tells which one a behaviour exercises. The other harnesses' variables stay idle.

### MC_Sockets (`MC_Sockets.tla`, `Sockets_safety.cfg`)

MC_Sockets joins the Descriptors, ErsatzSocketpair and ReadFile harnesses the same way. It uses the instances `D`, `E` and `R`, with the bounds of MC_Descriptors and MC_ErsatzSocketpair and those above. The descriptor numbers occur only in Descriptors' state, so the symmetry over them stays sound, also for the liveness property `ReadFileReturns`, which does not mention them.

### What the runs show

Twelve runs: four pass and eight are violations, each backing a finding.

**Arc4Random**
- **arc4_safety.** With a working `getrandom`:
  - a forked child never repeats its parent's bytes (`ForkSafety`);
  - the reseed counter bounds every stream (`ReseedBound`).
- **arc4_unseeded (finding).** When every entropy source fails, `arc4_stir_if_needed` ignores the error, and `get_bytes` returns bytes of the unseeded identity permutation (part_000:293).
- **arc4_fork_unseeded (finding).** A child whose reseed fails has already taken the new pid. It keeps the parent's counter and returns the parent's bytes (part_000:290-293).

**Time (MC_Time)**
- **time.** The timer refines the abstract monotonic clock (`MonotonicPerClock`). Reads never go backwards when the wall clock is stepped, or when the timer is configured again onto the same clock. This holds because the second call keeps `last_time` and the offset. A second configuration onto another clock can return an earlier value; it is not a run, because evutil_time.c:147-148 says the configuration is for initial use, and the refinement lets the abstract clock's source change there. On the gettimeofday path it advances exactly by the wall clock's forward movement (`ElapsedIsForwardMovement`). `evutil_tv_to_msec_` returns the exact rounded-up count or -1, and never a wrapped value (`MsecExact`). It returns -1 only for `tv_usec > 1000000` or a count within 2000 of `LONG_MAX`.
  - Every `evutil_weakrand_range_` call returns (`RangeReturns`).
  - On every byte, the `EVUTIL_IS*_` tables and the case tables agree with the "C" locale (`CharClassesAgree`). `evutil_hex_char_to_int_` converts exactly the bytes that `EVUTIL_ISXDIGIT_` accepts, to their value.
  - For both signednesses of `char`, `evutil_ascii_strcasecmp` and `evutil_ascii_strncasecmp` order strings as strcmp orders their lower-case forms, or the forms of their first n bytes (`CaseCmpIsLexicographic`).
  - `evutil_rtrim_lws_` keeps the longest prefix that does not end in a space or a tab (`RtrimIsLongestPrefix`).
- **strcasecmp_sign (finding).** util.h calls `evutil_ascii_strcasecmp` "As strcasecmp". strcasecmp compares `unsigned char`. The code compares the lowered bytes as plain `char`, so with signed `char` a byte above 127 sorts below the NUL: "" compares greater than "\xc8" (`AsStrcasecmp`, evutil.c:1774). `evutil_ascii_strncasecmp` has the same loop.

**Sockets (MC_Sockets, one run for Descriptors, ErsatzSocketpair and ReadFile)**
- **sockets_safety.** Whichever system call fails, on either kernel:
  - no helper leaks a descriptor (`NoDescriptorLeak`);
  - every descriptor returned to the caller has the flags asked for (`FlagsAsPromised`).
- **descriptors_cloexec_race (finding).** `evutil_socket_` falls back to a plain `socket()` after any failure of the atomic call, even on a kernel that supports `SOCK_CLOEXEC`. A fork and exec on another thread before the `fcntl(F_SETFD)` then hands the descriptor to the new program (evutil.c:1952). `evutil_eventfd_` and `evutil_make_internal_pipe_` have the same window, and so has `evutil_open_closeonexec_` after any failure of its first `open` other than `EINVAL`.
- **open_cloexec_einval (finding).** The comment in `evutil_open_closeonexec_` says "If we got an EINVAL, fall through and try without O_CLOEXEC". The test before it, `fd >= 0 || errno == EINVAL`, returns -1 on `EINVAL` instead, and falls through on every other error. On a kernel that rejects `O_CLOEXEC`, TLC's trace is a `Begin` of the helper and a first `open` that ends the call with -1 (`OpenFallsThroughOnEinval`, evutil.c:62).

- For the ersatz socketpair, a foreign process may connect first, or fill the queue, and any call may fail. Even so:
  - a successful call returns two ends of one connection (`PairIsConnected`);
  - every path closes what it must (`NoSocketLeak`).

- For `evutil_read_file_`, another process appends to and truncates the file between any two system calls, reads are short, and any call fails. Even so:
  - the loop never reads more than the `st_size` bytes it allocated for, however the file grew after the `fstat()` (`ReadWithinAllocation`);
  - every exit closes the descriptor, and the buffer is freed unless it is returned with 0 (`NoLeakOnReturn`);
  - when nothing changed the file, a 0 return carries all of it (`WholeFileIfUnchanged`);
  - the call always returns (`ReadFileReturns`).
- The run passes with 182,702 distinct states in about a minute.

**Addresses (MC_AddrInfo, one run for InetText, SockaddrText and AddrInfo)**
- **addresses.** Passes with 566,397 distinct states.
  - `evutil_inet_pton` reads back what `evutil_inet_ntop` writes, in both families (`RoundTrip`). This covers the "::" compression, the embedded IPv4 forms and the gap arithmetic.
  - Every RFC text of up to 7 pieces is accepted as its RFC address (`AcceptsAddressText`).
  - Every accepted IPv6 text has all its words written and in range (`TypeOK`).
  - `ParseDocumentedForms` holds for every documented form of up to 5 pieces and for every formatter output. Each is parsed into its address, port and zone, and `*outlen` is honoured. The formatter writes the documented form, so the formatter and the parser round-trip.
  - `evutil_sockaddr_cmp` is antisymmetric and transitive (`SockaddrCmpIsOrder`). When it returns 0 is not checked: util.h says "0 if they are equal", and the code ignores `sin6_scope_id` (see below).
  - `evutil_getaddrinfo_common_` answers as RFC 3493 does for every name it answers without a resolver. It returns `EVUTIL_EAI_NEED_RESOLVE`, with the right port, exactly for the others. A failed allocation leaves nothing allocated (`GaiCommonAsRfc`).
  - On every host, with every set of quirks and every cached need, `evutil_getaddrinfo` returns what a conforming getaddrinfo returns, or `EAI_MEMORY` and no list (`GetaddrinfoHidesQuirks`). Two paths of the workarounds are modelled but never reached: the modelled host's getaddrinfo returns only IPv4 and IPv6 entries with a socket type, so the numeric-port workaround never unlinks an entry (and never meets its skip or its NULL dereference), and the socket-type workaround never copies one (and never meets a failing `mm_malloc`).
- **inet_ntop_truncation (finding).** For AF_INET6, `evutil_inet_ntop` fails only when `strlen(buf) > len`. At `strlen(buf) == len`, `strlcpy` cuts off the last character and the call still returns `dst`. For example, the all-zero address with `len = 2` gives ":" (evutil.c:1371).
- **servname_wrap (finding).** `parse_numeric_servname` casts `strtol`'s `long` to `int` before its range test. "1048656" at 20-bit ints (as "4294967376" on LP64) becomes port 80, where getaddrinfo refuses the service (evutil.c:654).
- **addrconfig_race (finding).** With two threads, `evutil_check_interfaces` sets `have_checked_interfaces` before it probes, and nothing locks the statics (evutil.c:527). TLC's trace:
  1. Thread 1 fails `getifaddrs` and the IPv4 probe.
  2. Thread 2 finds the check done and keeps `PF_UNSPEC` by the empty flags.
  3. Thread 1's IPv6 probe then finds the host IPv6-only, so thread 2 should have narrowed to `PF_INET6`.

**Leniencies seen but not run.** The parsers accept some texts that their contracts say they reject. They are recorded as hazards in PROJECT.json rather than as runs:
- `evutil_inet_pton` accepts "::0x1" and "::1:" (evutil.c:1472, 1485);
- `evutil_parse_sockaddr_port` accepts an empty zone ("::%") and a port followed by garbage (evutil.c:1403, 1580);
- `evutil_sockaddr_cmp` ignores `sin6_scope_id` (evutil.c:1681): the same link-local address on two interfaces compares equal, although util.h says it returns 0 "if they are equal". No run states util.h's equality, because all twelve run slots are taken.

### Mutants

Each property is shown to catch a plausible bug. The mutant replaces a mapped definition, and TLC then finds the property violated under the run's own cfg.

| Run | Property | Mutant |
|---|---|---|
| arc4_safety | `TypeOK` | `Stir` not resetting the counter |
| arc4_safety | `ForkSafety` | no pid check |
| arc4_safety | `ReseedBound` | `BufLoop` never testing the counter |
| time | `TypeOK` | `timeradd` without carry |
| time | `MonotonicPerClock` | `evutil_configure_monotonic_time_` clearing the offset and `last_time` |
| time | `ElapsedIsForwardMovement` | ratchet without growing the offset |
| time | `MsecExact` | `MAX_SECONDS_IN_MSEC_LONG` without the `- 999` |
| sockets_safety | `DescriptorsTypeOK` | `fcntl` success not recorded |
| sockets_safety | `NoDescriptorLeak` | failed `fcntl` returning before the close |
| sockets_safety | `FlagsAsPromised` | flags set on the first descriptor of a pipe only |
| sockets_safety | `SocketpairTypeOK` | the error code returned instead of -1 |
| sockets_safety | `PairIsConnected` | peer check comparing hosts only |
| sockets_safety | `NoSocketLeak` | `tidy_up_and_fail` not closing the acceptor |
| sockets_safety | `ReadFileTypeOK` | `evutil_read_file_` returning `r` |
| sockets_safety | `ReadWithinAllocation` | `read` asking for one byte more (for the NUL) |
| sockets_safety | `NoLeakOnReturn` | a failed `read` not freeing the buffer |
| sockets_safety | `WholeFileIfUnchanged` | the first `read` taken as the whole file |
| sockets_safety | `ReadFileReturns` | the loop going on while `read` returns `r >= 0` |
| addresses | `TypeOK` | the gap's `memset` one word short |
| addresses | `RoundTrip` | the dotted words moved with the gap |
| addresses | `AcceptsAddressText` | no leading "::" in the word loop |
| addresses | `ParseDocumentedForms` | zone only by interface name |
| addresses | `SockaddrCmpIsOrder` | comparison returning only "less" or "equal" |
| addresses | `GaiCommonAsRfc` | `evutil_new_addrinfo_` keeping the TCP entry when the UDP allocation fails |
| addresses | `GetaddrinfoHidesQuirks` | the numeric-port workaround setting the port of IPv4 entries only |
| time | `RangeReturns` | the loop drawing from a copy of the state |
| time | `CharClassesAgree` | `EVUTIL_ISXDIGIT_TABLE` with the letter masks 0x7f (taking in '@' and '`') |
| time | `CaseCmpIsLexicographic` | `evutil_ascii_strncasecmp` looping `while (--n)` |
| time | `RtrimIsLongestPrefix` | `evutil_rtrim_lws_` never clearing the first character |

### Fairness

`WeakRand` and `ReadFile` have liveness properties.
- `WeakRand`'s `Spec` assumes `WF_vars(Draw)`, and so does `TimeSpec` in MC_Time. The rejection loop runs in the caller's thread, with no lock, wait or I/O between its passes, so once it is entered nothing can keep it from taking its next pass.
- `ReadFile`'s `Spec` assumes `WF_vars(ReaderRuns)`, and so does `SocketsSpec` in MC_Sockets. `ReaderRuns` is every step of the calling thread except a failing `read`. The thread is not blocked by anything but its own system calls, and a failing `read` ends the call as well, so leaving it out of the fairness only drops behaviours that return anyway. The other process gets no fairness: it may stop at any time or never.

No other fairness is assumed. The other modules' properties are safety properties, and a run of those can stop anywhere.

## Not modelled, and why

- **The lock set-up of the PRNG.** The model takes every entry point as atomic.
- **The data race before the locks exist.** It is undefined behaviour below the RC4 abstraction.
- **Memory management** (`*_free`).
- **`usleep`.** It is pure I/O.
- **`read` interrupted by a signal.** `evutil_read_file_` does not retry `EINTR`. The comment promises -2 for such a failure, and the model lets `read` fail and checks the exits.
- **`open` on a kernel before 2.6.23,** which ignores `O_CLOEXEC` rather than failing with `EINVAL`. Descriptors takes such a kernel to fail with `EINVAL`, as the comment at evutil.c:64 assumes.
- **`evutil_socket_finished_connecting_` and the listen-socket `setsockopt` wrappers.** Each is one read-only or one-shot system call with no state of its own.
- **`evutil_date_rfc1123`.** It is formatting only.
- **The `<addr with socktype %d>` text** of `evutil_format_sockaddr_port_` for other families. The model has AF_INET and AF_INET6 only.
- **`evutil_freeaddrinfo` and `evutil_gai_strerror`.** The first is memory management. The second is a table of messages.
- **NULL hints** to `evutil_getaddrinfo`. They are copied as `PF_UNSPEC` with nothing else set, which `HintSets` already contains.
- **The `#ifndef AI_ADDRCONFIG` and `#ifndef AI_NUMERICSERV` fallbacks.** They are not compiled on Linux. So on Linux `evutil_adjust_hints_for_addrconfig_` is reached only through other callers, and the model runs it on its own.
- **The evdns hooks** (`evutil_set_evdns_getaddrinfo_fn_` and the asynchronous resolver). The resolver is not in this repository.
- **`strlcpy-internal.h`.** It only declares `event_strlcpy_`. Its definition is not under `src/`, and InetText models its effect where `evutil_inet_ntop` calls it.
- **Two threads on one monotonic timer.** util.h says this is not safe, so it is a caller error.
- **A read before `evutil_configure_monotonic_time`.** util.h requires the configuration first. The zero-filled timer would read CLOCK_REALTIME, which is clock id 0.
- **`evutil_weakrand_range_` with `top <= 0` or `top > EVUTIL_WEAKRAND_MAX`.** The division is by zero, or a negative top loops forever. No caller under `src/` passes such a top, so the model takes 1..WEAKRAND_MAX as its precondition.
- **CMake.**

## Plan (in order)

1. **Arc4Random and MonotonicTimer.** Done.
2. **TimeConv and WeakRand.** Done.
3. **InetText.** Done. A run that states the strict `inet_pton` grammar, to back the leniency hazards, would need a slot among the runs.
4. **SockaddrText and AddrInfo.** Done. Open: a run with two calls of `evutil_getaddrinfo` on one host, which would share the cached needs. The one-call harness argues it away, but no run checks it.
5. **Socketpair and descriptor helpers.** Done (Descriptors, ErsatzSocketpair), with the file helpers (ReadFile).
6. **Refinement of the timer** to the abstract monotonic clock. Done, and reconfiguration is modelled.
7. **ASCII helpers.** Done.
8. **TimeTest.** An abstract event base from `spec.md`, composed with MonotonicTimer and the sample's callback. Liveness: the callback keeps firing under weak fairness of the loop. All twelve run slots are used, so it must join an existing harness.
