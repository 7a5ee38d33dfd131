# TLA+ models of erickxeno/clib

This directory holds TLA+ models of the Go library in `src/`, the TLC
configurations that check them, and `PROJECT.json`. `PROJECT.json` lists the
components, runs, mutants, the map from each definition to the source lines it
models, findings and hazards.

## The system

`clib` is a utility library. Its core is the coercion engine in `src/convert`.
Every strict function `ToXE(i interface{}) (X, error)` does the same three things:
1. It resolves pointers with `Indirect`.
2. It switches on the dynamic type of the value.
3. For a defined type over a basic kind (`type MyInt int`), it falls back to
   `reflect` and calls itself again on the basic value.

Strings are parsed with `strconv`. Before `ParseInt`/`ParseUint` with base 0,
the integer functions strip a leading `"0"` (unless the string starts with
`"0o"`) and recurse on the rest.

The other parts build on this or stand beside it:
- The collection lifters (`ToIntSliceE`, `ToStringMapE`, ...) call a scalar
  function on each element.
- The lenient wrappers (`ToInt`, ...) drop the error.
- `ToVersionE` uses `ToIntSlice`.
- `Tuple` accessors use the lenient wrappers.
- `ToUniq*Array` merges and dedupes slices.
- `config` loads one YAML file into viper once (`Init`) and serves getters.
  The file is found by `FindConfDir` and `GetConfigYmlFile`.
- `cconfig` reads a file of its own and coerces values with `convert`.
- `uid` keeps a registry of ID generators per namespace.
- `utils`, `errors`, `logs` and `common` are leaf helpers.

Where code runs concurrently:
- `config.Init`: a double-checked once with an atomic flag and a mutex.
- `uid.GetGenerator`: a double-checked `sync.Map` with a mutex.
- `utils.safe_rand`: a `sync.Pool`.

Everything else is sequential. What is hard about it is numeric edges and
corner cases of the type switch.

## Inventory

| Component | Source | State | Operations | Hard behaviour |
|---|---|---|---|---|
| Indirection resolver | `convert/converte.go` 40-52 | the value being dereferenced | loop while non-nil pointer | typed nil pointer is returned as a non-nil interface |
| Integer coercion | `converte.go` 219-951 | current value (the recursion) | native casts, float truncation, bool, nil, string strip-and-recurse, strconv parse, reflect default | wrap-around, sign rejection, `"0"` parsing, base prefixes |
| Scalar coercion (bool, float, string, time, duration) | `converte.go` 55-216, 954-1127, `time_convert.go` | as above | ParseBool, ParseFloat, Format*, ordered format fallback, ParseDuration, unit helpers | `uint64` printed via `FormatInt(int64)`; `ToTimeE` of a float recurses for ever; `MsToTime` drops milliseconds |
| Collection lifters | `converte.go` 1130-1689 | partial result, index | element loop with early return | map iteration order is random: first error and partial map vary |
| Merge/dedupe | `convert/slice_uniq.go` | result, seen-set, indexes | loop over slices | the two-slice variant panics below 9 elements, else starts with 9 zeros |
| Version, tuple | `version.go`, `tupe.go` | none | split and parse, indexed get | `"1.0.3"` parses as 0.0.0; a negative index panics |
| config.Init | `config/config.go` 19-73 | `done`, mutex `m`, viper contents | Init, LoadFile | concurrent callers, deferred store on failure |
| Config path | `config/path.go` | none (file system) | FindConfDir (depth ≤ 10), GetConfigYmlFile (last existing file wins) | bound, layering order |
| cconfig | `cconfig/file.go` | decoded `data` map | loaders, GetConfigItem, typed getters and WithDefault forms | decoder-dependent dynamic types: YAML sections, json.Number text, int32 narrowing |
| UID registry | `uid/uid.go` | `generatorMap`, `lock` | GetGenerator | concurrent misses on the same namespace |
| Safe rand | `utils/safe_rand.go` | pooled generators, their seeds and streams | Get (pooled or New), draw or panic, deferred Put | a generator used by one goroutine at a time; seeds from a clock of finite resolution |

## Modules

Pure functions are operators; code with state or with a loop is a state
machine whose actions are the steps of the code.

- **`Strconv`**: the part of Go's `strconv` the engine calls, as pure operators.
  - `ParseUint` and `ParseInt` with base 0: the `0b`/`0o`/`0x` prefixes apply
    only when the string is at least 3 long, and a bare leading `0` means octal.
  - `FormatInt`.
  - `Wrap`, the two's-complement narrowing of a Go integer conversion.
  - `RangeOf`.
- **`ToString`**: the dynamic values the coercions take, and `ToStringE`.
  - Values are records:
    - integer kinds with a value, and floats as halves (`h` stands for `h/2`);
    - bools (`BoolVal`), and strings as sequences of one-character strings;
    - pointers, defined types (`Named`), typed nil pointers (`NilPtr`) and an
      unsupported struct (`Opaque`);
    - Stringers, which carry their text.
  - `IndirectToStringerOrError` follows pointers until it reaches one whose
    type has a `String` method.
  - `ToStringE` is the type switch. Unsigned kinds go through
    `FormatInt(int64(s))`, which is `FormatInt(Wrap(v, 64, signed))`. A defined
    type goes through `Underlying` (reflect's `v.Int()`/`v.Uint()`/`v.Float()`)
    and recurses.
- **`ConvertInt`**: the ten functions `ToIntE` .. `ToUint8E`.
  - Each function is a row of `Fn`: its width, its sign, the `bitSize` it
    passes to strconv, and whether it rejects negatives. All ten share one
    state machine.
  - One action per branch of the code:
    - `IndirectElem` and `IndirectDone` are the loop of `Indirect`.
    - `CastNumber` is the numeric, bool and nil cases.
    - `StripLeadingZero` is the recursive call on `s[1:]`.
    - `ParseString` is the strconv call and the cast.
    - `ReflectKind` is the reflect default with its recursive call.
    - `Unsupported` is the final error.
  - **Lanes.** The properties compare two calls, so the caller makes two:
    - lane `plain` on a value `v`;
    - lane `wrapped` on a wrapped form of `v`: behind one or two pointers, as a
      defined type, zero-padded, as a typed nil pointer, or as the text
      `ToStringE(v)` gives.
  - `oor` is the value this build gives for a float out of the target's range.
    It is chosen once per call: Go leaves it implementation-dependent, and one
    build is deterministic.
- **`MCConvertInt`**: the bounds of `ConvertInt`.
  - Widths are scaled: 8, 16, 32 and 64 bits become 3, 4, 5 and 6, which TLC's
    integers hold. Every narrowing between the types and every sign change
    stays as it is.
  - Strings are at most 3 bytes over the alphabet `0 1 8 - o x`.
- **`ConvertString`**: single calls of `ToStringE` on every basic value, behind
  one or two pointers, as a defined type, and on a Stringer.
- **`SliceLift`**: the thirteen slice lifters, as rows of one state machine.
  - A row records how a lifter differs: whether it has a case for its own
    slice type, walks arrays, coerces elements, splits a string into fields,
    lifts a scalar into one element, or replaces an element's error by its own.
  - The element coercion is abstract. An element is a model value, and
    `Conv` gives its result. `ConvertInt` checks the element functions
    themselves.
  - The actions are the type switch (`Switch`), one iteration (`LoopElem`)
    and the end of the loop (`LoopEnd`).
- **`MapLift`**: the six map lifters (`ToStringMapStringE` .. `ToStringMapInt64E`).
  - `Visit(k)` is one iteration of the range loop. `k` is any key not yet
    visited, which is Go's random `MapKeys` order. Keys and values are model
    values: `KeyStr` gives `ToStringE` of a key, `Conv` the element function of
    a value.
  - `Switch` is the kind check and the string/JSON case; `LoopEnd` returns `m`.
  - The caller makes the same call twice (lanes 1 and 2), so a property can
    compare two orders.
- **`Uniq`**: the eight `ToUniq*` functions, as two rows.
  - The rows differ in the number of slices taken and the zero values that
    `make` puts in front. A `make` whose length exceeds its capacity
    panics, so `Call` ends in `"panic"` when the slices hold fewer elements
    than that.
  - The loop is one action per iteration (`Visit`), plus `NextSlice` and
    `Return`.
- **`Version`**: `ToVersionE` as operators.
  - `TrimSpace`, `VersionRun` (what the regular expression keeps), `SplitDots`,
    `ToIntEString` (the leading-zero strip, then `ParseInt`) and `ToIntSlice`
    (empty when a part fails).
  - `Component` is the length cascade.
  - A state machine calls it on strings, renderings of versions, pointers,
    defined string types, `VersionInfo` values, nil and other kinds.
- **`Tuple`**: `NewTuple`, `Get` and `GetInt`.
  - `Get` returns nil, an element, or a panic for a negative index of a
    non-nil tuple.
- **`FileConfig`**: `cconfig.FileConfig`, the typed reader of a decoded file.
  - A document is written as literals. `Decode` gives the Go value each
    decoder stores for a literal:
    - yaml.v2 stores `int`, and `map[interface{}]interface{}` for a section;
    - jsoniter with `UseNumber` stores a `json.Number` holding the text;
    - toml stores `int64`.
  - `Load` is the string, stream and single-`.json`-file loaders. A read
    error or an undecodable document gives a nil configuration.
  - `GetConfigItem` descends into a section.
  - `Call` is one of the six getters or its `WithDefault` form. Each getter is
    an operator with the code's type switch; strings go through
    `ToIntEString`, `ParseBool` and `ParseFloat`, as `convert` does.
  - `int32(v)` of a float64 that int32 cannot hold is implementation-dependent,
    so `Call` lets the build return any int32 for it.
- **`TimeConvert`**: the scalar coercions `ToTimeE`, `ToDurationE`,
  `ToBoolE`, `ToFloat64E` and `ToFloat32E`, and the unit helpers of
  `time_convert.go`.
  - Times are nanoseconds since the epoch. Go's factor 1e3 between ns, us,
    ms and s is the constant `Scale`, and 60 is `MinutePer`.
  - `UnixNano` wraps at the scaled int64 width, and `TimeToUnit` is
    `TimeToSec` .. `TimeToNs` with their zero-time check. `SecToTime` ..
    `NsToTime` use Go's truncating `/` and `%` (`Quot`, `Rem`).
  - `ParseDuration` is `time.ParseDuration` on texts without a fraction: a
    sign, then terms of digits and a unit, and the overflow checks.
    `StringToDateE` abstracts the 24 layouts to which texts parse, and to
    what (`Dates`).
  - A call is a state machine like `ConvertInt`'s, with the same two lanes.
    `Same`, `UnixSeconds`, `Nanoseconds`, `ParseDate` and
    `ParseDurationText` are the switch cases of the time functions;
    `BoolCases` and `ParseBoolText` those of `ToBoolE`, and `FloatCases`
    and `ParseFloatText` those of `ToFloat64E` and `ToFloat32E`.
    `ReflectRecurse`, `ReflectBool` and `Unsupported` are the reflect
    default, with the kinds each function lists (`KindsRecursed`).
  - A bool result is 1 or 0 and a float result a number of halves.
    `ParseBool` is `strconv.ParseBool`'s twelve texts; `ParseFloat` is
    `strconv.ParseFloat` on a sign and digits, all the model's alphabet can
    spell. Magnitudes stay below 2^24, where `float32` is exact.
  - The wrapped lane also calls on a typed nil pointer when the plain
    value is nil (`typednil`).
  - Step by step, a recursion that does not end is a cycle of states. TLC
    can check it as a behaviour, where a recursive operator would overflow
    TLC's stack.
  - `UnitCall` converts a count to a time and back with one pair of helpers.
  - `FairSpec` adds weak fairness on each lane's steps.
- **`MCTimeConvert`**: the bounds of `TimeConvert` (see below).
- **`MCConvert`**: a sequential caller of the convert package and of cconfig.
  - It composes `SliceLift`, `MapLift`, `Uniq`, `ConvertString`, `Version`,
    `Tuple`, `TimeConvert` and `FileConfig` through `INSTANCE ... WITH`, renaming their
    variables.
  - One part steps while the others are at rest. `Discard` drops the result of
    a one-step call.
  - It gives every part its bounds (see below).
  - `VIEW RestView` leaves out which function a part at rest called last,
    which no step reads.
- **`ConfigInit`**: goroutines calling `config.Init` once each.
  - The body is one action per step: the fast atomic load, `Lock`, the
    re-check under the lock, `Find`, `ReadInConfig`, the struct load, then the
    two deferred calls in Go's order (store, then unlock).
  - File-system answers are nondeterministic at each step.
- **`ConfigPath`**: how `Init` chooses its file.
  - `FindConfDir` is a recursive operator with the depth bound.
  - `GetConfigYmlFile` is a fold over the layer names: the last one that
    exists wins.
  - The file system is state, and `ChangeFS` changes it one item at a time:
    a `conf` directory at some height, a file, or `SUB_ENV`. `Lookup` is one
    `Init` lookup.
- **`GeneratorRegistry`**: goroutines calling `uid.GetGenerator` for a namespace.
  - The actions are the first `Load`, the lock, the second `Load`, the
    creation plus `Store`, and the deferred unlock.
- **`AbstractRegistry`**: what `GetGenerator` promises.
  - `GetOrCreate` is one atomic step: return the namespace's generator, or
    create and register one.
  - Weak fairness per caller.
- **`SafeRand`**: the `SafeRand*` functions over `randPool`.
  - A generator is a model value with a `status` (unmade, pooled, held,
    dropped), the `seed` `New` gave it and its stream position `pos`. The
    k-th draw of a generator is `<<seed, k>>`: equal seeds give equal
    streams, and distinct seeds are taken to give distinct values.
  - `Get` takes a pooled generator, and `GetNew` is `Get` calling `New`,
    which seeds with the clock `now`. sync.Pool may do either while items
    are pooled, and drops pooled items at a collection (`Collect`); `Tick`
    moves the clock by one tick of its resolution.
  - `Draw` is the call's use of the generator. `Panic` is `Intn`, `Int63n`
    or `Int31n` with n <= 0, or `Perm` or `Shuffle` with n < 0; `Put` is the
    deferred `Put`, which runs on both paths.
  - `SafeRandFloat64` stands for the functions without an argument, `Intn`
    for the three bounded ones, and `Perm` for `Perm` and `Shuffle`.
- **`MCSafeRand`**: the bounds of `SafeRand` for the `distinct_draws` run.
- **`MCGoroutines`**: goroutines that call `uid.GetGenerator` and then a
  `SafeRand*` function, composing `GeneratorRegistry` and `SafeRand` (their
  variables are distinct). Each goroutine's steps are weakly fair;
  collections and ticks may happen between any two steps.

## Refinement

`GeneratorRegistry` defines `Registry == INSTANCE AbstractRegistry` with the
identity mapping: `gmap`, `want`, `got` and `created` are shared. The
`goroutines` run checks `RegistryRefined == Registry!Spec` as a
`PROPERTY`, through `MCGoroutines`; the `SafeRand` steps are stutters of the
registry.
- A call takes effect at the Load that finds the generator, or at `Store`.
- Every other step (the lock, a missed Load, the unlock) stutters.
- The abstract liveness (every call returns a generator) must follow from
  the concrete fairness.

The mutant `ReloadBuildsFirst` builds the generator before the second Load and
drops it on a hit. It keeps every invariant and breaks only the refinement.

## Runs

| Run | Checks | Shows |
|---|---|---|
| `convert_int` (pass) | `TypeOK`, `IndirectionTransparent`, `UnsignedRejectsNegative` | the ten integer functions give the same result for a value behind `*`, `**` or a defined type; unsigned targets reject every negative source |
| `int_string_round_trip` (violation) | `IntStringRoundTrip` | `ToInt64E("0")` errors, so `ToInt64E(ToStringE(0)) ≠ 0` |
| `convert` (pass) | `TypeOK`, `LiftElementwise`, `ElementErrorPropagated`, `LiftKeywise`, `ErrorAtFailingEntry`, `UniqIsMergeDedupe`, `StringRendersValue`, `VersionRoundTrip`, `IntGettersAgree`, `ScalarIndirectionTransparent`, `DecimalTextAgrees`, `BoolIsNonZero`, `UnitRoundTrip` | see the list below |
| `map_lift_deterministic` (violation) | `LiftDeterministic` | two calls of a map lifter on one map return different maps or errors |
| `uniq2_merge_dedupe` (violation) | `UniqIsMergeDedupe` | the two-slice variants panic in `make` on fewer than nine elements (and return nine leading zeros on more) |
| `section_scoped` (violation) | `SectionScoped` | `GetConfigItem` returns nil for every section of a YAML document |
| `time_calls_return` (violation) | `TimeCallsReturn` | `ToTimeE` of a float64 never returns: its reflect default calls `ToTimeE` on the same float64 for ever, and the stack overflows |
| `distinct_draws` (violation) | `DistinctDraws` | two generators `New` makes within one clock tick share a seed, so two goroutines draw the same value |
| `config_init` (pass) | `TypeOK`, `AtMostOneLoad`, `DoneOnlyAfterLoad`, `AllReturn` | three concurrent callers: one load at most; `done` never visible during a load; everyone returns |
| `init_nil_means_loaded` (violation) | `InitNilMeansLoaded` | a failed first Init makes every later Init return nil with nothing loaded |
| `config_path` (pass) | `TypeOK`, `ChosenFileIsMostSpecific` | whatever the file system, Init reads the most specific layer of the nearest conf directory within ten levels |
| `goroutines` (pass) | `TypeOK`, `OneGeneratorPerNamespace`, `CheckoutDiscipline`, `AllGetGenerator`, `RegistryRefined` | two goroutines over two namespaces, each calling `GetGenerator` and then a `SafeRand*` function: one generator per namespace, the one in the map; every call returns; the registry refines an atomic get-or-create; a pooled `*rand.Rand` is in one goroutine's hands at a time and back in the pool when the call ends, by a return or a panic |

What the `convert` run shows:
- The typed slice lifters lift slices and arrays element by element, all or
  nothing, with the first failing element's error.
- Under every `MapKeys` order, the map lifters lift key by key, and an error
  names a failing key or value.
- One-slice dedupe keeps first occurrences in order.
- `ToStringE` renders every value below 2^63 as its text: plain, behind
  pointers, as a defined type, or as a Stringer.
- A version without a zero component is found in free-form text: its
  rendering, with leading text (`v`, ` -`) and trailing text (`-r`, a space,
  a fourth group `.1`), parses back to it, as does the rendering behind a
  pointer or as a defined string type.
- In every format, `GetInt` agrees with `GetInt64`, and `GetInt32` is its
  int32 narrowing, except for a float that int32 cannot hold.
- `ToTimeE`, `ToDurationE`, `ToBoolE`, `ToFloat64E` and `ToFloat32E`
  give a value behind a pointer or of a defined type the result of the
  plain value, for every kind their reflect defaults list, or fail to list.
- `ToFloat64E` and `ToFloat32E` of the decimal text of an integer give the
  integer's float, and `ToDurationE` of the text of an int64 count that
  many nanoseconds, the duration of the count itself.
- `ToBoolE` of nil is false, and of a number of every integer and float
  kind whether it is non-zero, including the four kinds its switch leaves
  to the reflect default.
- `TimeToSec`, `TimeToUs` and `TimeToNs` undo `SecToTime`, `UsToTime` and
  `NsToTime` for every instant `UnixNano` can hold.

Each property of a passing run has a mutant in `PROJECT.json`. A mutant is a
plausible bug in the code, and TLC finds the property violated under it:
- `Indirect` written with `if` instead of `for`.
- The `s < 0` checks left out of `ToUint16E`.
- The re-check under the lock left out, the store of `done` not deferred, and a
  return that keeps the lock.
- The seen-set lookup left out.
- A failing type assertion, and the generator built before the second Load.
- A map value's error ignored, and the value checked before the key.
- The regular expression left out, and the version length cascade off by one.
- `indirectToStringerOrError` dereferencing once.
- `ToInt32E` parsing a string with bitSize 32.
- `FindConfDir`'s bound off by one or tested after `IsDir`, and
  `GetConfigYmlFile` stopping at the first file.
- `reflect.Int64` missing from `ToTimeE`'s default, `ToDurationE` parsing a
  bare count without appending `"ns"`, and `UsToTime` dropping the
  sub-second part as `MsToTime` does.
- `ToFloat64E` parsing text with an unsigned parser, and `reflect.Int8`
  missing from `ToBoolE`'s default.
- `randPool.Get` handing out a pooled generator that stays in the pool.

### Known divergences without a run

TLC finds these violated as well, but the project keeps no run for them:
- `ConvertInt`'s `NilPointerIsNull`: a typed nil pointer errors where `nil`
  gives 0 (`converte.go:48`).
- `ToIntSliceE` replaces an element's error by its own (`converte.go:1403`).
  The `convert` run leaves it out of the lifters it checks.
- `ToSliceE` rejects arrays (`converte.go:1313`), also left out of the run.
- `Version`'s `VersionRoundTrip` leaves out the versions with a zero
  component. Without that exclusion TLC finds it violated over the
  components `{0, 1, 10}`: `ToVersionE("0.0.1")` is 0.0.0. The cause is the
  one `int_string_round_trip` finds: `ToIntE("0")` fails.
- The leading-zero strip runs before `ParseInt`'s base prefixes, so
  `"0x1"` becomes `"x1"` and fails (`converte.go:248`), where the spec
  (section 4.2) says `0x`/`0o`/`0b` prefixes are supported. Strings of
  length 3 over `0 1 8 - o x` reach it; a property stating the spec's rule
  fails first on `"0"`, which `int_string_round_trip` already reports.
- `cconfig`'s `GetFloat64` has no integer case (`file.go:224`). A YAML or TOML
  integer is "not float64 value"; the same number in JSON reads as a float.
- `Tuple`'s `AccessorsNeverFail`: `Get` checks only `len <= index`, so
  `GetInt(-1)` panics, where the spec (section 2) says the positional
  accessors never fail (`tupe.go:12`).
- `MsToTime` drops the milliseconds below a second (`time_convert.go:69`).
  With milliseconds added to `UnitRoundTrip`, TLC finds `MsToTime(-1)` and
  `MsToTime(15)` coming back as 0 and 10.
- `ToFloat64E` and `ToFloat32E` have no `nil` case (`converte.go:106`):
  `nil` reaches the reflect default as `reflect.Invalid` and errors, where
  the spec (section 4.2) says null is zero for numeric targets. With
  `BoolIsNonZero`'s nil clause stated for the float functions too, TLC
  finds `ToFloat32E(nil)` failing.
- `ToStringE` renders a `uint64` of 2^63 or more through
  `FormatInt(int64(s))`, as a negative number (`converte.go:1074`). With
  `StringInts <- LargeStringInts` in `Convert.cfg`, TLC finds
  `StringRendersValue` violated.
- `TimeToSec` and its siblings divide `t.UnixNano()`, which wraps outside
  the years 1678-2262 (`time_convert.go:87`). `UnitRoundTrip` assumes an
  instant `UnixNano` can hold. The scaled count of 600 seconds comes back
  as -448.

### Bounds, and why they are enough

- **Integers.** Scaled widths keep the structure of two's complement. The
  chosen values hit 0, ±1, each type's extremes and beyond them.
  `StringInts` stays below the scaled 2^63 (32) in the passing run;
  `LargeStringInts` adds 40.
- **Strings.** For the integer functions, strings of length 3 give every
  prefix form the code distinguishes, except a sign followed by a base
  prefix (`-0x1`), which needs 4. For `ToVersionE`, strings of four bytes over
  `1 0 . - space` reach leading text, a second run, a bare dot, a sign and
  surrounding spaces.
- **Versions.** The components `{0, 1, 10}` include zero, a leading digit
  that is also a later digit, and a two-digit number with a zero in it.
  With the three leading and four trailing texts they give 324 free-form
  strings.
- **Concurrency.** For `config.Init`, three goroutines are enough for two to
  race on the first check while a third arrives after `done` is set. In
  `MCGoroutines`, two goroutines over two namespaces race on a namespace's
  first `Load`, or ask for different ones; each makes one `SafeRand` call
  with an argument of -1 or 2, so calls draw and panic, a generator put
  back by one goroutine is taken by the other, and a collection makes the
  other call `New`. A third goroutine, or a second call each, makes the
  product of the two modules too large for TLC.
- **Safe rand.** `MCSafeRand` has two goroutines of two calls each, four
  generators (one per call, so `New` never runs out), the arguments -1, 0
  and 2, and a clock of three ticks.
- **Slices.** Slices of length 3 over four elements: two that coerce, one
  of them to the zero value, and two that fail. The first failure can then be
  told from a later one, and an unfilled slot from a filled one.
- **Maps.** Up to three of four keys:
  - two keys with different string forms;
  - a third whose string form collides with the first;
  - one `ToStringE` rejects.

  Values: two that coerce and one that fails. Every order of three keys is
  explored.
- **Uniq.** Slices of length 3 over three values, one of them the zero value,
  contain every duplicate pattern of length 3. The two slices then hold at most six
  elements, so every non-empty two-slice call panics in `make`, as the code
  does; nine or more would need slices of length 5, which the state space
  does not allow.
- **Tuples.** Up to three elements, and indices from -1 to 3: before, inside,
  at and past the end.
- **cconfig.** Two keys; each is absent, a scalar, or a section of at most one
  scalar. The three formats are used. The scalars are:
  - 0, and 20, which is past int32's scaled range;
  - -1.5, and 20.5, whose truncation int32 cannot hold;
  - `"020"` (the leading-zero strip, then a value past int32), `"t"` and
    `true`.
- **Time.** `MCTimeConvert`, also used by `MCConvert`:
  - int64 has 20 bits, so `UnixNano` holds about ±524 scaled seconds. The
    count 600 overflows it, and 524289 is a uint64 past int64.
  - A second is 1000 ns, a minute 6000 and an hour 36000, so `"5h"` fits an
    int64 and `"55h"` does not.
  - Texts of up to three bytes over `5 - s m h t` give `"t"` and `"5"`
    to `ParseBool`, signed and unsigned counts to `ParseFloat`, and bare counts, signed
    counts, every unit letter the alphabet has, unknown units (`"mh"`), a
    count after a unit (`"5m5"`) and overflow to `ParseDuration`.
  - The counts -1, 5, 15 and 600 give a negative count, a count below one
    second in every unit, a count with a sub-second remainder, and one past
    `UnixNano`'s range.
  - The floats 1.5 and 5.0 reach the float cases and the recursion.
- **Config path.** `conf` directories at heights 0, 1, 10 and 11 (11 is past
  the bound), every subset of the five layer files in the conf directory and
  in the working directory, and `SUB_ENV` on or off.

### Fairness

- `ConfigInit`, `GeneratorRegistry`, `AbstractRegistry` and `MCGoroutines`
  assume weak fairness for each goroutine. The Go scheduler runs runnable goroutines.
- Each goroutine takes the mutex at most once, so a waiting goroutine is
  overtaken only finitely often. Weak fairness on its `Lock` step is therefore
  enough.
- These runs set `CHECK_DEADLOCK FALSE` because each goroutine makes one call,
  and when all have returned the program has nothing left to do.
- The coercion models and `ConfigPath` have a caller that calls again for
  ever, and are checked for deadlock.
- `TimeConvert`'s `FairSpec` assumes weak fairness on each lane's steps:
  a goroutine in a call keeps running it. The caller is not required to
  call again. Under this fairness the only behaviour that keeps a call open
  is the `ToTimeE` float recursion.

## Plan

Most important first.

Done:
1. `Strconv` + `ConvertInt`.
2. `ConfigInit`.
3. `GeneratorRegistry`, with its refinement of `AbstractRegistry`.
4. `Uniq`.
5. `SliceLift`, the slice lifters.
6. `ToString`/`ConvertString`.
7. `MapLift`.
8. `Version`.
9. `Tuple`.
10. `ConfigPath`.
11. `FileConfig`, cconfig's loaders, `GetConfigItem` and getters.
12. `TimeConvert`: `ToTimeE`, `ToDurationE` and the unit helpers.
13. `TimeConvert`: `ToBoolE`, `ToFloat64E` and `ToFloat32E`.
14. `SafeRand`, and `MCGoroutines` composing it with `GeneratorRegistry`.

Next:
1. **cconfig**: `GetJson`/`GetStrings`, and configor's multi-file load.
2. **Lenient wrappers** (`convert.go`): `v, _ := ToXE(i)`, which return
   what the strict function returns beside its error.
3. **Slice lifters composed with `ConvertInt`**: replace `Conv` by the integer
   functions' own results, for example `ToInt64SliceE` of `["0"]`.
4. **`ConfigInit` composed with `ConfigPath`**: the file that `Find` returns
   would come from the file system instead of a free choice. The product is
   too large for TLC: about 800,000 file-system states times about 3,000
   Init states. So `Find` keeps its free choice, and `ConfigPath` is checked
   on its own.

## Not modelled

- The jsoniter marshal round trip of `GetJson`/`GetStrings`, and configor's
  merge of several files, are not modelled: they are third-party.

- Logging, errors and hashing: I/O or pure formatting.
- `hook_order`: constants.
- `to_ptr`: identity on addresses.
- `extract_struct_prop`: reflection lookup by name.
- `safe_rand`: the values a seed's stream draws are abstracted to the
  seed and the position; a chance collision of two distinct streams is not
  modelled. The swap callback of `SafeRandShuffle` is user code, taken to
  call nothing of the pool.
- The viper and configor internals, and JSON decoding: they are third-party.
  A JSON string given to a map lifter is either valid, giving a map, or not.
- `strconv`'s `_` digit separators: `_` is outside the modelled alphabet.
- The layouts of `StringToDateE`: `time.Parse` is the standard library, and
  which texts parse with which layout is data. The model abstracts the loop
  over the layouts ("the first layout that parses wins") to its outcome,
  `Dates`.
- `ToStringE`'s `[]byte`, `template.*`, `error` and `reflect.Func` cases: each
  returns a text the caller already holds.
