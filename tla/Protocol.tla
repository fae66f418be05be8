------------------------------- MODULE Protocol -------------------------------
(***************************************************************************)
(* The generated code as it is committed: the modules of src/protocol and of*)
(* src/methods.                                                            *)
(***************************************************************************)
EXTENDS TLC, ProtocolTypes, ProtocolCommands, ProtocolEvents, MethodNames

None == [x \in {} |-> x]

\* A module: what the schema calls types, commands and events, with the enums that
\* were stated in a field of either moved to the types.
Module(types, commands, events) ==
    LET Rows(f, kinds) == [n \in {m \in DOMAIN f : f[m].kind \in kinds} |-> f[n]]
        Declaring == {"struct", "enum", "alias"}
    IN  [types    |-> Rows(types, Declaring) @@ Rows(commands, Declaring) @@ Rows(events, Declaring),
         commands |-> Rows(commands, {"command"}),
         events   |-> Rows(events, {"event"})]

\* src/protocol/mod.rs
Modules == [
    accessibility |-> Module(AccessibilityTypes, AccessibilityCommands, AccessibilityEvents),
    ads |-> Module(AdsTypes, AdsCommands, None),
    animation |-> Module(AnimationTypes, AnimationCommands, AnimationEvents),
    audits |-> Module(AuditsTypes, AuditsCommands, AuditsEvents),
    autofill |-> Module(AutofillTypes, AutofillCommands, AutofillEvents),
    background_service |-> Module(BackgroundServiceTypes, BackgroundServiceCommands, BackgroundServiceEvents),
    bluetooth_emulation |-> Module(BluetoothEmulationTypes, BluetoothEmulationCommands, BluetoothEmulationEvents),
    browser |-> Module(BrowserTypes, BrowserCommands, BrowserEvents),
    cache_storage |-> Module(CacheStorageTypes, CacheStorageCommands, None),
    cast |-> Module(CastTypes, CastCommands, CastEvents),
    console |-> Module(ConsoleTypes, ConsoleCommands, ConsoleEvents),
    crash_report_context |-> Module(CrashReportContextTypes, CrashReportContextCommands, None),
    css |-> Module(CssTypes, CssCommands, CssEvents),
    debugger |-> Module(DebuggerTypes, DebuggerCommands, DebuggerEvents),
    device_access |-> Module(DeviceAccessTypes, DeviceAccessCommands, DeviceAccessEvents),
    device_orientation |-> Module(None, DeviceOrientationCommands, None),
    digital_credentials |-> Module(DigitalCredentialsTypes, DigitalCredentialsCommands, None),
    dom |-> Module(DomTypes, DomCommands, DomEvents),
    dom_debugger |-> Module(DomDebuggerTypes, DomDebuggerCommands, None),
    dom_snapshot |-> Module(DomSnapshotTypes, DomSnapshotCommands, None),
    dom_storage |-> Module(DomStorageTypes, DomStorageCommands, DomStorageEvents),
    emulation |-> Module(EmulationTypes, EmulationCommands, EmulationEvents),
    event_breakpoints |-> Module(None, EventBreakpointsCommands, None),
    extensions |-> Module(ExtensionsTypes, ExtensionsCommands, None),
    fed_cm |-> Module(FedCmTypes, FedCmCommands, FedCmEvents),
    fetch |-> Module(FetchTypes, FetchCommands, FetchEvents),
    file_system |-> Module(FileSystemTypes, FileSystemCommands, None),
    headless_experimental |-> Module(HeadlessExperimentalTypes, HeadlessExperimentalCommands, None),
    heap_profiler |-> Module(HeapProfilerTypes, HeapProfilerCommands, HeapProfilerEvents),
    indexed_db |-> Module(IndexedDbTypes, IndexedDbCommands, None),
    input |-> Module(InputTypes, InputCommands, InputEvents),
    inspector |-> Module(None, InspectorCommands, InspectorEvents),
    io |-> Module(IoTypes, IoCommands, None),
    layer_tree |-> Module(LayerTreeTypes, LayerTreeCommands, LayerTreeEvents),
    log |-> Module(LogTypes, LogCommands, LogEvents),
    media |-> Module(MediaTypes, MediaCommands, MediaEvents),
    memory |-> Module(MemoryTypes, MemoryCommands, None),
    network |-> Module(NetworkTypes, NetworkCommands, NetworkEvents),
    overlay |-> Module(OverlayTypes, OverlayCommands, OverlayEvents),
    page |-> Module(PageTypes, PageCommands, PageEvents),
    performance |-> Module(PerformanceTypes, PerformanceCommands, PerformanceEvents),
    performance_timeline |-> Module(PerformanceTimelineTypes, PerformanceTimelineCommands, PerformanceTimelineEvents),
    preload |-> Module(PreloadTypes, PreloadCommands, PreloadEvents),
    profiler |-> Module(ProfilerTypes, ProfilerCommands, ProfilerEvents),
    pwa |-> Module(PwaTypes, PwaCommands, None),
    runtime |-> Module(RuntimeTypes, RuntimeCommands, RuntimeEvents),
    schema |-> Module(SchemaTypes, SchemaCommands, None),
    security |-> Module(SecurityTypes, SecurityCommands, SecurityEvents),
    service_worker |-> Module(ServiceWorkerTypes, ServiceWorkerCommands, ServiceWorkerEvents),
    smart_card_emulation |-> Module(SmartCardEmulationTypes, SmartCardEmulationCommands, SmartCardEmulationEvents),
    storage |-> Module(StorageTypes, StorageCommands, StorageEvents),
    system_info |-> Module(SystemInfoTypes, SystemInfoCommands, None),
    target |-> Module(TargetTypes, TargetCommands, TargetEvents),
    tethering |-> Module(None, TetheringCommands, TetheringEvents),
    tracing |-> Module(TracingTypes, TracingCommands, TracingEvents),
    web_audio |-> Module(WebAudioTypes, WebAudioCommands, WebAudioEvents),
    web_authn |-> Module(WebAuthnTypes, WebAuthnCommands, WebAuthnEvents),
    web_mcp |-> Module(WebMcpTypes, WebMcpCommands, WebMcpEvents)]

\* src/methods/mod.rs
MethodModules == [
    accessibility |-> AccessibilityMethods, ads |-> AdsMethods,
    animation |-> AnimationMethods, audits |-> AuditsMethods,
    autofill |-> AutofillMethods, background_service |-> BackgroundServiceMethods,
    bluetooth_emulation |-> BluetoothEmulationMethods, browser |-> BrowserMethods,
    cache_storage |-> CacheStorageMethods, cast |-> CastMethods,
    console |-> ConsoleMethods, crash_report_context |-> CrashReportContextMethods,
    css |-> CssMethods, debugger |-> DebuggerMethods,
    device_access |-> DeviceAccessMethods,
    device_orientation |-> DeviceOrientationMethods,
    digital_credentials |-> DigitalCredentialsMethods, dom |-> DomMethods,
    dom_debugger |-> DomDebuggerMethods, dom_snapshot |-> DomSnapshotMethods,
    dom_storage |-> DomStorageMethods, emulation |-> EmulationMethods,
    event_breakpoints |-> EventBreakpointsMethods, extensions |-> ExtensionsMethods,
    fed_cm |-> FedCmMethods, fetch |-> FetchMethods,
    file_system |-> FileSystemMethods,
    headless_experimental |-> HeadlessExperimentalMethods,
    heap_profiler |-> HeapProfilerMethods, indexed_db |-> IndexedDbMethods,
    input |-> InputMethods, inspector |-> InspectorMethods, io |-> IoMethods,
    layer_tree |-> LayerTreeMethods, log |-> LogMethods, media |-> MediaMethods,
    memory |-> MemoryMethods, network |-> NetworkMethods,
    overlay |-> OverlayMethods, page |-> PageMethods,
    performance |-> PerformanceMethods,
    performance_timeline |-> PerformanceTimelineMethods, preload |-> PreloadMethods,
    profiler |-> ProfilerMethods, pwa |-> PwaMethods, runtime |-> RuntimeMethods,
    schema |-> SchemaMethods, security |-> SecurityMethods,
    service_worker |-> ServiceWorkerMethods,
    smart_card_emulation |-> SmartCardEmulationMethods, storage |-> StorageMethods,
    system_info |-> SystemInfoMethods, target |-> TargetMethods,
    tethering |-> TetheringMethods, tracing |-> TracingMethods,
    web_audio |-> WebAudioMethods, web_authn |-> WebAuthnMethods,
    web_mcp |-> WebMcpMethods]
=============================================================================
