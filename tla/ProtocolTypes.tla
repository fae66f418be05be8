---------------------------- MODULE ProtocolTypes ----------------------------
(***************************************************************************)
(* The types each domain declares, and the enums that come with their fields:*)
(* the part before the commands of each file of src/protocol.              *)
(***************************************************************************)
EXTENDS ProtocolSyntax

AccessibilityTypes == [
    AxNodeId |-> Alias, AxValueType |-> Enum, AxValueSourceType |-> Enum,
    AxValueNativeSourceType |-> Enum,
    AxValueSource |-> Plain(<<One("AxValueSourceType"), Opt("AxValue"),
        Opt("AxValue"), Opt("AxValueNativeSourceType"), Opt("AxValue")>>),
    AxRelatedNode |-> Default(<<In("dom", One("BackendNodeId"))>>),
    AxProperty |-> Plain(<<One("AxPropertyName"), One("AxValue")>>),
    AxValue |-> Plain(<<One("AxValueType"), OptMany("AxRelatedNode"),
        OptMany("AxValueSource")>>), AxPropertyName |-> Enum,
    AxNode |-> Default(<<One("AxNodeId"), OptMany("AxProperty"), Opt("AxValue"),
        Opt("AxValue"), Opt("AxValue"), Opt("AxValue"), Opt("AxValue"),
        OptMany("AxProperty"), Opt("AxNodeId"), OptMany("AxNodeId"),
        In("dom", Opt("BackendNodeId")), In("page", Opt("FrameId"))>>)]

AdsTypes == [
    AdFrameData |-> Default(<<In("page", One("FrameId"))>>),
    AdMetrics |-> Default(<<Many("AdFrameData"), In("page", Many("FrameId"))>>)]

AnimationTypes == [
    Animation |-> Plain(<<One("AnimationType"), Opt("AnimationEffect"),
        Opt("ViewOrScrollTimeline")>>), AnimationType |-> Enum,
    ViewOrScrollTimeline |-> Plain(<<In("dom", Opt("BackendNodeId")),
        In("dom", Opt("BackendNodeId")), In("dom", One("ScrollOrientation"))>>),
    AnimationEffect |-> Default(<<In("dom", Opt("BackendNodeId")),
        Opt("KeyframesRule")>>),
    KeyframesRule |-> Default(<<Many("KeyframeStyle")>>), KeyframeStyle |-> Bare]

AuditsTypes == [
    AffectedCookie |-> Bare,
    AffectedRequest |-> Default(<<In("network", Opt("RequestId"))>>),
    AffectedFrame |-> Default(<<In("page", One("FrameId"))>>),
    CookieExclusionReason |-> Enum, CookieWarningReason |-> Enum,
    CookieOperation |-> Enum, InsightType |-> Enum,
    CookieIssueInsight |-> Plain(<<One("InsightType")>>),
    CookieIssueDetails |-> Plain(<<Opt("AffectedCookie"),
        Many("CookieWarningReason"), Many("CookieExclusionReason"),
        One("CookieOperation"), Opt("AffectedRequest"),
        Opt("CookieIssueInsight")>>), PerformanceIssueType |-> Enum,
    PerformanceIssueDetails |-> Plain(<<One("PerformanceIssueType"),
        Opt("SourceCodeLocation")>>), MixedContentResolutionStatus |-> Enum,
    MixedContentResourceType |-> Enum,
    MixedContentIssueDetails |-> Plain(<<Opt("MixedContentResourceType"),
        One("MixedContentResolutionStatus"), Opt("AffectedRequest"),
        Opt("AffectedFrame")>>), BlockedByResponseReason |-> Enum,
    BlockedByResponseIssueDetails |-> Plain(<<One("AffectedRequest"),
        Opt("AffectedFrame"), Opt("AffectedFrame"),
        One("BlockedByResponseReason")>>), HeavyAdResolutionStatus |-> Enum,
    HeavyAdReason |-> Enum,
    HeavyAdIssueDetails |-> Plain(<<One("HeavyAdResolutionStatus"),
        One("HeavyAdReason"), One("AffectedFrame")>>),
    ContentSecurityPolicyViolationType |-> Enum,
    SourceCodeLocation |-> Default(<<In("runtime", Opt("ScriptId"))>>),
    ContentSecurityPolicyIssueDetails |-> Plain(<<One("ContentSecurityPolicyViolationType"),
        Opt("AffectedFrame"), Opt("SourceCodeLocation"),
        In("dom", Opt("BackendNodeId"))>>), SharedArrayBufferIssueType |-> Enum,
    SharedArrayBufferIssueDetails |-> Plain(<<One("SourceCodeLocation"),
        One("SharedArrayBufferIssueType")>>),
    CorsIssueDetails |-> Plain(<<In("network", One("CorsErrorStatus")),
        One("AffectedRequest"), Opt("SourceCodeLocation"),
        In("network", Opt("IpAddressSpace")),
        In("network", Opt("ClientSecurityState"))>>),
    SharedDictionaryError |-> Enum, SriMessageSignatureError |-> Enum,
    UnencodedDigestError |-> Enum, ConnectionAllowlistError |-> Enum,
    QuirksModeIssueDetails |-> Default(<<In("dom", One("BackendNodeId")),
        In("page", One("FrameId")), In("network", One("LoaderId"))>>),
    NavigatorUserAgentIssueDetails |-> Default(<<Opt("SourceCodeLocation")>>),
    SharedDictionaryIssueDetails |-> Plain(<<One("SharedDictionaryError"),
        One("AffectedRequest")>>),
    SriMessageSignatureIssueDetails |-> Plain(<<One("SriMessageSignatureError"),
        One("AffectedRequest")>>),
    UnencodedDigestIssueDetails |-> Plain(<<One("UnencodedDigestError"),
        One("AffectedRequest")>>),
    ConnectionAllowlistIssueDetails |-> Plain(<<One("ConnectionAllowlistError"),
        One("AffectedRequest")>>), GenericIssueErrorType |-> Enum,
    GenericIssueDetails |-> Plain(<<One("GenericIssueErrorType"),
        In("page", Opt("FrameId")), In("dom", Opt("BackendNodeId")),
        Opt("AffectedRequest")>>),
    DeprecationIssueDetails |-> Default(<<Opt("AffectedFrame"),
        One("SourceCodeLocation")>>), BounceTrackingIssueDetails |-> Bare,
    CookieDeprecationMetadataIssueDetails |-> Plain(<<One("CookieOperation")>>),
    ClientHintIssueReason |-> Enum,
    FederatedAuthRequestIssueDetails |-> Plain(<<One("FederatedAuthRequestIssueReason")>>),
    FederatedAuthRequestIssueReason |-> Enum,
    FederatedAuthUserInfoRequestIssueDetails |-> Plain(<<One("FederatedAuthUserInfoRequestIssueReason")>>),
    FederatedAuthUserInfoRequestIssueReason |-> Enum,
    EmailVerificationRequestIssueDetails |-> Plain(<<One("EmailVerificationRequestIssueReason")>>),
    EmailVerificationRequestIssueReason |-> Enum,
    ClientHintIssueDetails |-> Plain(<<One("SourceCodeLocation"),
        One("ClientHintIssueReason")>>),
    FailedRequestInfo |-> Default(<<In("network", Opt("RequestId"))>>),
    PartitioningBlobUrlInfo |-> Enum,
    PartitioningBlobUrlIssueDetails |-> Plain(<<One("PartitioningBlobUrlInfo")>>),
    ElementAccessibilityIssueReason |-> Enum,
    ElementAccessibilityIssueDetails |-> Plain(<<In("dom", One("BackendNodeId")),
        One("ElementAccessibilityIssueReason")>>),
    StyleSheetLoadingIssueReason |-> Enum,
    StylesheetLoadingIssueDetails |-> Plain(<<One("SourceCodeLocation"),
        One("StyleSheetLoadingIssueReason"), Opt("FailedRequestInfo")>>),
    PropertyRuleIssueReason |-> Enum,
    PropertyRuleIssueDetails |-> Plain(<<One("SourceCodeLocation"),
        One("PropertyRuleIssueReason")>>), UserReidentificationIssueType |-> Enum,
    UserReidentificationIssueDetails |-> Plain(<<One("UserReidentificationIssueType"),
        Opt("AffectedRequest"), Opt("SourceCodeLocation")>>),
    PermissionElementIssueType |-> Enum,
    PermissionElementIssueDetails |-> Plain(<<One("PermissionElementIssueType"),
        In("dom", Opt("BackendNodeId"))>>),
    SelectivePermissionsInterventionIssueDetails |-> Default(<<In("network", One("AdAncestry")),
        In("runtime", Opt("StackTrace"))>>),
    LazyLoadImageIssueDetails |-> Default(<<In("dom", One("BackendNodeId")),
        In("page", One("FrameId"))>>), InspectorIssueCode |-> Enum,
    InspectorIssueDetails |-> Default(<<Opt("CookieIssueDetails"),
        Opt("MixedContentIssueDetails"), Opt("BlockedByResponseIssueDetails"),
        Opt("HeavyAdIssueDetails"), Opt("ContentSecurityPolicyIssueDetails"),
        Opt("SharedArrayBufferIssueDetails"), Opt("CorsIssueDetails"),
        Opt("QuirksModeIssueDetails"), Opt("PartitioningBlobUrlIssueDetails"),
        Opt("NavigatorUserAgentIssueDetails"), Opt("GenericIssueDetails"),
        Opt("DeprecationIssueDetails"), Opt("ClientHintIssueDetails"),
        Opt("FederatedAuthRequestIssueDetails"), Opt("BounceTrackingIssueDetails"),
        Opt("CookieDeprecationMetadataIssueDetails"),
        Opt("StylesheetLoadingIssueDetails"), Opt("PropertyRuleIssueDetails"),
        Opt("FederatedAuthUserInfoRequestIssueDetails"),
        Opt("SharedDictionaryIssueDetails"),
        Opt("ElementAccessibilityIssueDetails"),
        Opt("SriMessageSignatureIssueDetails"), Opt("UnencodedDigestIssueDetails"),
        Opt("ConnectionAllowlistIssueDetails"),
        Opt("UserReidentificationIssueDetails"),
        Opt("PermissionElementIssueDetails"), Opt("PerformanceIssueDetails"),
        Opt("SelectivePermissionsInterventionIssueDetails"),
        Opt("EmailVerificationRequestIssueDetails"),
        Opt("LazyLoadImageIssueDetails")>>), IssueId |-> Alias,
    InspectorIssue |-> Plain(<<One("InspectorIssueCode"),
        One("InspectorIssueDetails"), Opt("IssueId")>>)]

AutofillTypes == [
    CreditCard |-> Bare, AddressField |-> Bare,
    AddressFields |-> Default(<<Many("AddressField")>>),
    Address |-> Default(<<Many("AddressField")>>),
    AddressUi |-> Default(<<Many("AddressFields")>>), FillingStrategy |-> Enum,
    FilledField |-> Plain(<<One("FillingStrategy"), In("page", One("FrameId")),
        In("dom", One("BackendNodeId"))>>)]

BackgroundServiceTypes == [
    ServiceName |-> Enum, EventMetadata |-> Bare,
    BackgroundServiceEvent |-> Plain(<<In("network", One("TimeSinceEpoch")),
        In("service_worker", One("RegistrationId")), One("ServiceName"),
        Many("EventMetadata")>>)]

BluetoothEmulationTypes == [
    CentralState |-> Enum, GattOperationType |-> Enum,
    CharacteristicWriteType |-> Enum, CharacteristicOperationType |-> Enum,
    DescriptorOperationType |-> Enum, ManufacturerData |-> Bare,
    ScanRecord |-> Default(<<OptMany("ManufacturerData")>>),
    ScanEntry |-> Default(<<One("ScanRecord")>>), CharacteristicProperties |-> Bare]

BrowserTypes == [
    BrowserContextId |-> Alias, WindowId |-> Alias, WindowState |-> Enum,
    Bounds |-> Default(<<Opt("WindowState")>>), PermissionType |-> Enum,
    PermissionSetting |-> Enum, PermissionDescriptor |-> Bare,
    BrowserCommandId |-> Enum, Bucket |-> Bare,
    Histogram |-> Default(<<Many("Bucket")>>)]

CacheStorageTypes == [
    CacheId |-> Alias, CachedResponseType |-> Enum,
    DataEntry |-> Plain(<<Many("Header"), One("CachedResponseType"),
        Many("Header")>>),
    Cache |-> Default(<<One("CacheId"), In("storage", Opt("StorageBucket"))>>),
    Header |-> Bare, CachedResponse |-> Bare]

CastTypes == [Sink |-> Bare]

ConsoleTypes == [
    ConsoleMessage |-> Plain(<<One("ConsoleMessageSource"),
        One("ConsoleMessageLevel")>>), ConsoleMessageSource |-> Enum,
    ConsoleMessageLevel |-> Enum]

CrashReportContextTypes == [
    CrashReportContextEntry |-> Default(<<In("page", One("FrameId"))>>)]

CssTypes == [
    StyleSheetOrigin |-> Enum,
    PseudoElementMatches |-> Plain(<<In("dom", One("PseudoType")),
        Many("RuleMatch")>>), CssAnimationStyle |-> Default(<<One("CssStyle")>>),
    InheritedStyleEntry |-> Default(<<Opt("CssStyle"), Many("RuleMatch")>>),
    InheritedAnimatedStyleEntry |-> Default(<<OptMany("CssAnimationStyle"),
        Opt("CssStyle")>>),
    InheritedPseudoElementMatches |-> Default(<<Many("PseudoElementMatches")>>),
    RuleMatch |-> Plain(<<One("CssRule")>>),
    Value |-> Default(<<Opt("SourceRange"), Opt("Specificity")>>),
    SpecificityComponent |-> Bare,
    Specificity |-> Default(<<OptMany("SpecificityComponent")>>),
    SelectorList |-> Default(<<Many("Value")>>),
    CssStyleSheetHeader |-> Plain(<<In("dom", One("StyleSheetId")),
        In("page", One("FrameId")), One("StyleSheetOrigin"),
        In("dom", Opt("BackendNodeId"))>>),
    CssRule |-> Plain(<<In("dom", Opt("StyleSheetId")), One("SelectorList"),
        One("StyleSheetOrigin"), One("CssStyle"), In("dom", Opt("BackendNodeId")),
        OptMany("CssMedia"), OptMany("CssContainerQuery"), OptMany("CssSupports"),
        OptMany("CssLayer"), OptMany("CssScope"), OptMany("CssRuleType"),
        OptMany("CssStartingStyle"), OptMany("CssNavigation")>>),
    CssRuleType |-> Enum, RuleUsage |-> Default(<<In("dom", One("StyleSheetId"))>>),
    SourceRange |-> Bare, ShorthandEntry |-> Bare,
    CssComputedStyleProperty |-> Bare, ComputedStyleExtraFields |-> Bare,
    CssStyle |-> Default(<<In("dom", Opt("StyleSheetId")), Many("CssProperty"),
        Many("ShorthandEntry"), Opt("SourceRange")>>),
    CssProperty |-> Default(<<Opt("SourceRange"), OptMany("CssProperty")>>),
    CssMedia |-> Plain(<<One("CssMediaSource"), Opt("SourceRange"),
        In("dom", Opt("StyleSheetId")), OptMany("MediaQuery")>>),
    CssMediaSource |-> Enum,
    MediaQuery |-> Default(<<Many("MediaQueryExpression")>>),
    MediaQueryExpression |-> Default(<<Opt("SourceRange")>>),
    CssContainerQuery |-> Default(<<Opt("SourceRange"),
        In("dom", Opt("StyleSheetId")), In("dom", Opt("PhysicalAxes")),
        In("dom", Opt("LogicalAxes"))>>),
    CssSupports |-> Default(<<Opt("SourceRange"), In("dom", Opt("StyleSheetId"))>>),
    CssNavigation |-> Default(<<Opt("SourceRange"),
        In("dom", Opt("StyleSheetId"))>>),
    CssScope |-> Default(<<Opt("SourceRange"), In("dom", Opt("StyleSheetId"))>>),
    CssLayer |-> Default(<<Opt("SourceRange"), In("dom", Opt("StyleSheetId"))>>),
    CssStartingStyle |-> Default(<<Opt("SourceRange"),
        In("dom", Opt("StyleSheetId"))>>),
    CssLayerData |-> Default(<<OptMany("CssLayerData")>>),
    PlatformFontUsage |-> Bare, FontVariationAxis |-> Bare,
    FontFace |-> Default(<<OptMany("FontVariationAxis")>>),
    CssTryRule |-> Plain(<<In("dom", Opt("StyleSheetId")), One("StyleSheetOrigin"),
        One("CssStyle")>>),
    CssPositionTryRule |-> Plain(<<One("Value"), In("dom", Opt("StyleSheetId")),
        One("StyleSheetOrigin"), One("CssStyle")>>),
    CssKeyframesRule |-> Default(<<One("Value"), Many("CssKeyframeRule")>>),
    CssPropertyRegistration |-> Default(<<Opt("Value")>>),
    CssAtRule |-> Plain(<<One("CssAtRuleType"), Opt("CssAtRuleSubsection"),
        Opt("Value"), In("dom", Opt("StyleSheetId")), One("StyleSheetOrigin"),
        One("CssStyle")>>), CssAtRuleType |-> Enum, CssAtRuleSubsection |-> Enum,
    CssPropertyRule |-> Plain(<<In("dom", Opt("StyleSheetId")),
        One("StyleSheetOrigin"), One("Value"), One("CssStyle")>>),
    CssFunctionParameter |-> Bare,
    CssFunctionConditionNode |-> Default(<<Opt("CssMedia"),
        Opt("CssContainerQuery"), Opt("CssSupports"), Opt("CssNavigation"),
        Many("CssFunctionNode")>>),
    CssFunctionNode |-> Default(<<Opt("CssFunctionConditionNode"),
        Opt("CssStyle")>>),
    CssFunctionRule |-> Plain(<<One("Value"), In("dom", Opt("StyleSheetId")),
        One("StyleSheetOrigin"), Many("CssFunctionParameter"),
        Many("CssFunctionNode"), In("dom", Opt("BackendNodeId"))>>),
    CssKeyframeRule |-> Plain(<<In("dom", Opt("StyleSheetId")),
        One("StyleSheetOrigin"), One("Value"), One("CssStyle")>>),
    StyleDeclarationEdit |-> Default(<<In("dom", One("StyleSheetId")),
        One("SourceRange")>>)]

DebuggerTypes == [
    BreakpointId |-> Alias, CallFrameId |-> Alias,
    Location |-> Default(<<In("runtime", One("ScriptId"))>>),
    ScriptPosition |-> Bare,
    LocationRange |-> Default(<<In("runtime", One("ScriptId")),
        One("ScriptPosition"), One("ScriptPosition")>>),
    CallFrame |-> Plain(<<One("CallFrameId"), Opt("Location"), One("Location"),
        Many("Scope"), In("runtime", One("RemoteObject")),
        In("runtime", Opt("RemoteObject"))>>),
    Scope |-> Plain(<<One("ScopeType"), In("runtime", One("RemoteObject")),
        Opt("Location"), Opt("Location")>>), ScopeType |-> Enum,
    SearchMatch |-> Bare,
    BreakLocation |-> Default(<<In("runtime", One("ScriptId")),
        Opt("BreakLocationType")>>), BreakLocationType |-> Enum,
    WasmDisassemblyChunk |-> Bare, ScriptLanguage |-> Enum,
    DebugSymbols |-> Plain(<<One("DebugSymbolsType")>>), DebugSymbolsType |-> Enum,
    ResolvedBreakpoint |-> Default(<<One("BreakpointId"), One("Location")>>)]

DeviceAccessTypes == [
    RequestId |-> Alias, DeviceId |-> Alias,
    PromptDevice |-> Default(<<One("DeviceId")>>)]

DigitalCredentialsTypes == [VirtualWalletAction |-> Enum]

DomTypes == [
    NodeId |-> Alias, BackendNodeId |-> Alias, StyleSheetId |-> Alias,
    BackendNode |-> Default(<<One("BackendNodeId")>>), PseudoType |-> Enum,
    ShadowRootType |-> Enum, CompatibilityMode |-> Enum, PhysicalAxes |-> Enum,
    LogicalAxes |-> Enum, ScrollOrientation |-> Enum,
    Node |-> Default(<<One("NodeId"), Opt("NodeId"), One("BackendNodeId"),
        OptMany("Node"), Opt("PseudoType"), Opt("ShadowRootType"),
        In("page", Opt("FrameId")), OptBox("Node"), OptMany("Node"), OptBox("Node"),
        OptMany("Node"), OptBox("Node"), OptMany("BackendNode"),
        Opt("CompatibilityMode"), Opt("BackendNode"), OptMany("StyleSheetId"),
        In("network", Opt("AdProvenance"))>>),
    DetachedElementInfo |-> Default(<<One("Node"), Many("NodeId")>>), Rgba |-> Bare,
    Quad |-> Alias,
    BoxModel |-> Default(<<One("Quad"), One("Quad"), One("Quad"), One("Quad"),
        Opt("ShapeOutsideInfo")>>), ShapeOutsideInfo |-> Default(<<One("Quad")>>),
    Rect |-> Bare, CssComputedStyleProperty |-> Bare]

DomDebuggerTypes == [
    DomBreakpointType |-> Enum, CspViolationType |-> Enum,
    EventListener |-> Default(<<In("runtime", One("ScriptId")),
        In("runtime", Opt("RemoteObject")), In("runtime", Opt("RemoteObject")),
        In("dom", Opt("BackendNodeId"))>>)]

DomSnapshotTypes == [
    DomNode |-> Default(<<In("dom", One("BackendNodeId")), OptMany("NameValue"),
        In("page", Opt("FrameId")), In("dom", Opt("PseudoType")),
        In("dom", Opt("ShadowRootType")),
        In("dom_debugger", OptMany("EventListener"))>>),
    InlineTextBox |-> Default(<<In("dom", One("Rect"))>>),
    LayoutTreeNode |-> Default(<<In("dom", One("Rect")),
        OptMany("InlineTextBox")>>),
    ComputedStyle |-> Default(<<Many("NameValue")>>), NameValue |-> Bare,
    StringIndex |-> Alias, ArrayOfStrings |-> AliasOf(<<Many("StringIndex")>>),
    RareStringData |-> Default(<<Many("StringIndex")>>), RareBooleanData |-> Bare,
    RareIntegerData |-> Bare, Rectangle |-> Alias,
    DocumentSnapshot |-> Default(<<One("StringIndex"), One("StringIndex"),
        One("StringIndex"), One("StringIndex"), One("StringIndex"),
        One("StringIndex"), One("StringIndex"), One("StringIndex"),
        One("NodeTreeSnapshot"), One("LayoutTreeSnapshot"),
        One("TextBoxSnapshot")>>),
    NodeTreeSnapshot |-> Default(<<Opt("RareStringData"), OptMany("StringIndex"),
        OptMany("StringIndex"), In("dom", OptMany("BackendNodeId")),
        OptMany("ArrayOfStrings"), Opt("RareStringData"), Opt("RareStringData"),
        Opt("RareBooleanData"), Opt("RareBooleanData"), Opt("RareIntegerData"),
        Opt("RareStringData"), Opt("RareStringData"), Opt("RareBooleanData"),
        Opt("RareStringData"), Opt("RareStringData")>>),
    LayoutTreeSnapshot |-> Default(<<Many("ArrayOfStrings"), Many("Rectangle"),
        Many("StringIndex"), One("RareBooleanData"), OptMany("Rectangle"),
        OptMany("Rectangle"), OptMany("Rectangle"), OptMany("StringIndex")>>),
    TextBoxSnapshot |-> Default(<<Many("Rectangle")>>)]

DomStorageTypes == [
    SerializedStorageKey |-> Alias,
    StorageId |-> Default(<<Opt("SerializedStorageKey")>>), Item |-> Alias]

EmulationTypes == [
    SafeAreaInsets |-> Bare,
    ScreenOrientation |-> Plain(<<One("ScreenOrientationType")>>),
    ScreenOrientationType |-> Enum,
    DisplayFeature |-> Plain(<<One("DisplayFeatureOrientation")>>),
    DisplayFeatureOrientation |-> Enum,
    DevicePosture |-> Plain(<<One("DevicePostureType")>>),
    DevicePostureType |-> Enum, MediaFeature |-> Bare, VirtualTimePolicy |-> Enum,
    UserAgentBrandVersion |-> Bare,
    UserAgentMetadata |-> Default(<<OptMany("UserAgentBrandVersion"),
        OptMany("UserAgentBrandVersion")>>), SensorType |-> Enum,
    SensorMetadata |-> Bare, SensorReadingSingle |-> Bare,
    SensorReadingXyz |-> Bare, SensorReadingQuaternion |-> Bare,
    SensorReading |-> Default(<<Opt("SensorReadingSingle"), Opt("SensorReadingXyz"),
        Opt("SensorReadingQuaternion")>>), PressureSource |-> Enum,
    PressureState |-> Enum, PressureMetadata |-> Bare, WorkAreaInsets |-> Bare,
    ScreenId |-> Alias,
    ScreenInfo |-> Plain(<<One("ScreenOrientation"), One("ScreenId")>>),
    DisabledImageType |-> Enum]

ExtensionsTypes == [StorageArea |-> Enum, ExtensionInfo |-> Bare]

FedCmTypes == [
    LoginState |-> Enum, DialogType |-> Enum, DialogButton |-> Enum,
    AccountUrlType |-> Enum, Account |-> Plain(<<One("LoginState")>>)]

FetchTypes == [
    RequestId |-> Alias, RequestStage |-> Enum,
    RequestPattern |-> Default(<<In("network", Opt("ResourceType")),
        Opt("RequestStage")>>), HeaderEntry |-> Bare,
    AuthChallenge |-> Default(<<Opt("AuthChallengeSource")>>),
    AuthChallengeSource |-> Enum,
    AuthChallengeResponse |-> Plain(<<One("AuthChallengeResponseResponse")>>),
    AuthChallengeResponseResponse |-> Enum]

FileSystemTypes == [
    File |-> Default(<<In("network", One("TimeSinceEpoch"))>>),
    Directory |-> Default(<<Many("File")>>),
    BucketFileSystemLocator |-> Default(<<In("storage", One("SerializedStorageKey"))>>)]

HeadlessExperimentalTypes == [
    ScreenshotParams |-> Default(<<Opt("ScreenshotParamsFormat")>>),
    ScreenshotParamsFormat |-> Enum]

HeapProfilerTypes == [
    HeapSnapshotObjectId |-> Alias,
    SamplingHeapProfileNode |-> Default(<<In("runtime", One("CallFrame")),
        Many("SamplingHeapProfileNode")>>), SamplingHeapProfileSample |-> Bare,
    SamplingHeapProfile |-> Default(<<One("SamplingHeapProfileNode"),
        Many("SamplingHeapProfileSample")>>)]

IndexedDbTypes == [
    DatabaseWithObjectStores |-> Default(<<Many("ObjectStore")>>),
    ObjectStore |-> Plain(<<One("KeyPath"), Many("ObjectStoreIndex")>>),
    ObjectStoreIndex |-> Plain(<<One("KeyPath")>>),
    Key |-> Plain(<<One("KeyType"), OptMany("Key")>>), KeyType |-> Enum,
    KeyRange |-> Default(<<Opt("Key"), Opt("Key")>>),
    DataEntry |-> Plain(<<In("runtime", One("RemoteObject")),
        In("runtime", One("RemoteObject")), In("runtime", One("RemoteObject"))>>),
    KeyPath |-> Plain(<<One("KeyPathType")>>), KeyPathType |-> Enum]

InputTypes == [
    TouchPoint |-> Bare, GestureSourceType |-> Enum, MouseButton |-> Enum,
    TimeSinceEpoch |-> Alias, DragDataItem |-> Bare,
    DragData |-> Default(<<Many("DragDataItem")>>)]

IoTypes == [StreamHandle |-> Alias]

LayerTreeTypes == [
    LayerId |-> Alias, SnapshotId |-> Alias,
    ScrollRect |-> Plain(<<In("dom", One("Rect")), One("ScrollRectType")>>),
    ScrollRectType |-> Enum,
    StickyPositionConstraint |-> Default(<<In("dom", One("Rect")),
        In("dom", One("Rect")), Opt("LayerId"), Opt("LayerId")>>),
    PictureTile |-> Bare,
    Layer |-> Default(<<One("LayerId"), Opt("LayerId"),
        In("dom", Opt("BackendNodeId")), OptMany("ScrollRect"),
        Opt("StickyPositionConstraint")>>), PaintProfile |-> Alias]

LogTypes == [
    LogEntry |-> Plain(<<One("LogEntrySource"), One("LogEntryLevel"),
        Opt("LogEntryCategory"), In("runtime", One("Timestamp")),
        In("runtime", Opt("StackTrace")), In("network", Opt("RequestId")),
        In("runtime", OptMany("RemoteObject"))>>), LogEntrySource |-> Enum,
    LogEntryLevel |-> Enum, LogEntryCategory |-> Enum,
    ViolationSetting |-> Plain(<<One("ViolationSettingName")>>),
    ViolationSettingName |-> Enum]

MediaTypes == [
    PlayerId |-> Alias, Timestamp |-> Alias,
    PlayerMessage |-> Plain(<<One("PlayerMessageLevel")>>),
    PlayerMessageLevel |-> Enum, PlayerProperty |-> Bare,
    PlayerEvent |-> Default(<<One("Timestamp")>>),
    PlayerErrorSourceLocation |-> Bare,
    PlayerError |-> Default(<<Many("PlayerErrorSourceLocation"),
        Many("PlayerError")>>),
    Player |-> Default(<<One("PlayerId"), In("dom", Opt("BackendNodeId"))>>)]

MemoryTypes == [
    PressureLevel |-> Enum, SamplingProfileNode |-> Bare,
    SamplingProfile |-> Default(<<Many("SamplingProfileNode"), Many("Module")>>),
    Module |-> Bare, DomCounter |-> Bare]

NetworkTypes == [
    ResourceType |-> Enum, LoaderId |-> Alias, RequestId |-> Alias,
    ErrorReason |-> Enum, TimeSinceEpoch |-> Alias, MonotonicTime |-> Alias,
    Headers |-> Alias, ConnectionType |-> Enum, CookieSameSite |-> Enum,
    CookiePriority |-> Enum, CookieSourceScheme |-> Enum, ResourceTiming |-> Bare,
    ResourcePriority |-> Enum, RenderBlockingBehavior |-> Enum,
    PostDataEntry |-> Bare,
    Request |-> Plain(<<One("Headers"), OptMany("PostDataEntry"),
        In("security", Opt("MixedContentType")), One("ResourcePriority"),
        One("RequestReferrerPolicy"), Opt("TrustTokenParams")>>),
    RequestReferrerPolicy |-> Enum, SignedCertificateTimestamp |-> Bare,
    SecurityDetails |-> Plain(<<In("security", One("CertificateId")),
        One("TimeSinceEpoch"), One("TimeSinceEpoch"),
        Many("SignedCertificateTimestamp"),
        One("CertificateTransparencyCompliance")>>),
    CertificateTransparencyCompliance |-> Enum, BlockedReason |-> Enum,
    CorsError |-> Enum, CorsErrorStatus |-> Plain(<<One("CorsError")>>),
    ServiceWorkerResponseSource |-> Enum,
    TrustTokenParams |-> Plain(<<One("TrustTokenOperationType"),
        One("TrustTokenParamsRefreshPolicy")>>),
    TrustTokenParamsRefreshPolicy |-> Enum, TrustTokenOperationType |-> Enum,
    AlternateProtocolUsage |-> Enum, ServiceWorkerRouterSource |-> Enum,
    ServiceWorkerRouterInfo |-> Default(<<Opt("ServiceWorkerRouterSource"),
        Opt("ServiceWorkerRouterSource")>>),
    Response |-> Plain(<<One("Headers"), Opt("Headers"),
        Opt("ServiceWorkerRouterInfo"), Opt("ResourceTiming"),
        Opt("ServiceWorkerResponseSource"), Opt("TimeSinceEpoch"),
        Opt("AlternateProtocolUsage"), In("security", One("SecurityState")),
        Opt("SecurityDetails")>>), WebSocketRequest |-> Default(<<One("Headers")>>),
    WebSocketResponse |-> Default(<<One("Headers"), Opt("Headers")>>),
    WebSocketFrame |-> Bare,
    CachedResource |-> Plain(<<One("ResourceType"), Opt("Response")>>),
    Initiator |-> Plain(<<One("InitiatorType"), In("runtime", Opt("StackTrace")),
        Opt("RequestId")>>), InitiatorType |-> Enum, CookiePartitionKey |-> Bare,
    Cookie |-> Plain(<<Opt("CookieSameSite"), One("CookiePriority"),
        One("CookieSourceScheme"), Opt("CookiePartitionKey")>>),
    SetCookieBlockedReason |-> Enum, CookieBlockedReason |-> Enum,
    CookieExemptionReason |-> Enum,
    BlockedSetCookieWithReason |-> Default(<<Many("SetCookieBlockedReason"),
        Opt("Cookie")>>),
    ExemptedSetCookieWithReason |-> Plain(<<One("CookieExemptionReason"),
        One("Cookie")>>),
    AssociatedCookie |-> Plain(<<One("Cookie"), Many("CookieBlockedReason"),
        Opt("CookieExemptionReason")>>),
    CookieParam |-> Default(<<Opt("CookieSameSite"), Opt("TimeSinceEpoch"),
        Opt("CookiePriority"), Opt("CookieSourceScheme"),
        Opt("CookiePartitionKey")>>),
    AuthChallenge |-> Default(<<Opt("AuthChallengeSource")>>),
    AuthChallengeSource |-> Enum,
    AuthChallengeResponse |-> Plain(<<One("AuthChallengeResponseResponse")>>),
    AuthChallengeResponseResponse |-> Enum, SignedExchangeSignature |-> Bare,
    SignedExchangeHeader |-> Default(<<One("Headers"),
        Many("SignedExchangeSignature")>>), SignedExchangeErrorField |-> Enum,
    SignedExchangeError |-> Default(<<Opt("SignedExchangeErrorField")>>),
    SignedExchangeInfo |-> Plain(<<One("Response"), Opt("SignedExchangeHeader"),
        Opt("SecurityDetails"), OptMany("SignedExchangeError")>>),
    ContentEncoding |-> Enum,
    NetworkConditions |-> Default(<<Opt("ConnectionType")>>), BlockPattern |-> Bare,
    DirectSocketDnsQueryType |-> Enum,
    DirectTcpSocketOptions |-> Default(<<Opt("DirectSocketDnsQueryType")>>),
    DirectUdpSocketOptions |-> Default(<<Opt("DirectSocketDnsQueryType")>>),
    DirectUdpMessage |-> Bare, LocalNetworkAccessRequestPolicy |-> Enum,
    IpAddressSpace |-> Enum, ConnectTiming |-> Bare,
    ClientSecurityState |-> Plain(<<One("IpAddressSpace"),
        One("LocalNetworkAccessRequestPolicy")>>),
    AdScriptIdentifier |-> Default(<<In("runtime", One("ScriptId")),
        In("runtime", One("UniqueDebuggerId"))>>),
    AdAncestry |-> Default(<<Many("AdScriptIdentifier")>>),
    AdProvenance |-> Default(<<Opt("AdAncestry")>>),
    CrossOriginOpenerPolicyValue |-> Enum,
    CrossOriginOpenerPolicyStatus |-> Plain(<<One("CrossOriginOpenerPolicyValue"),
        One("CrossOriginOpenerPolicyValue")>>),
    CrossOriginEmbedderPolicyValue |-> Enum,
    CrossOriginEmbedderPolicyStatus |-> Plain(<<One("CrossOriginEmbedderPolicyValue"),
        One("CrossOriginEmbedderPolicyValue")>>),
    ContentSecurityPolicySource |-> Enum,
    ContentSecurityPolicyStatus |-> Plain(<<One("ContentSecurityPolicySource")>>),
    SecurityIsolationStatus |-> Default(<<Opt("CrossOriginOpenerPolicyStatus"),
        Opt("CrossOriginEmbedderPolicyStatus"),
        OptMany("ContentSecurityPolicyStatus")>>), ReportStatus |-> Enum,
    ReportId |-> Alias,
    ReportingApiReport |-> Plain(<<One("ReportId"), One("TimeSinceEpoch"),
        One("ReportStatus")>>), ReportingApiEndpoint |-> Bare,
    DeviceBoundSessionKey |-> Bare,
    DeviceBoundSessionWithUsage |-> Plain(<<One("DeviceBoundSessionKey"),
        One("DeviceBoundSessionWithUsageUsage")>>),
    DeviceBoundSessionWithUsageUsage |-> Enum,
    DeviceBoundSessionCookieCraving |-> Default(<<Opt("CookieSameSite")>>),
    DeviceBoundSessionUrlRule |-> Plain(<<One("DeviceBoundSessionUrlRuleRuleType")>>),
    DeviceBoundSessionUrlRuleRuleType |-> Enum,
    DeviceBoundSessionInclusionRules |-> Default(<<Many("DeviceBoundSessionUrlRule")>>),
    DeviceBoundSession |-> Default(<<One("DeviceBoundSessionKey"),
        One("DeviceBoundSessionInclusionRules"),
        Many("DeviceBoundSessionCookieCraving"), One("TimeSinceEpoch")>>),
    DeviceBoundSessionEventId |-> Alias, DeviceBoundSessionFetchResult |-> Enum,
    DeviceBoundSessionFailedRequest |-> Bare,
    CreationEventDetails |-> Plain(<<One("DeviceBoundSessionFetchResult"),
        Opt("DeviceBoundSession"), Opt("DeviceBoundSessionFailedRequest")>>),
    RefreshEventDetails |-> Plain(<<One("RefreshEventDetailsRefreshResult"),
        Opt("DeviceBoundSessionFetchResult"), Opt("DeviceBoundSession"),
        Opt("DeviceBoundSessionFailedRequest")>>),
    RefreshEventDetailsRefreshResult |-> Enum,
    TerminationEventDetails |-> Plain(<<One("TerminationEventDetailsDeletionReason")>>),
    TerminationEventDetailsDeletionReason |-> Enum,
    ChallengeEventDetails |-> Plain(<<One("ChallengeEventDetailsChallengeResult")>>),
    ChallengeEventDetailsChallengeResult |-> Enum,
    LoadNetworkResourcePageResult |-> Default(<<In("io", Opt("StreamHandle")),
        Opt("Headers")>>), LoadNetworkResourceOptions |-> Bare]

OverlayTypes == [
    SourceOrderConfig |-> Default(<<In("dom", One("Rgba")),
        In("dom", One("Rgba"))>>),
    GridHighlightConfig |-> Default(<<In("dom", Opt("Rgba")),
        In("dom", Opt("Rgba")), In("dom", Opt("Rgba")), In("dom", Opt("Rgba")),
        In("dom", Opt("Rgba")), In("dom", Opt("Rgba")), In("dom", Opt("Rgba")),
        In("dom", Opt("Rgba")), In("dom", Opt("Rgba")), In("dom", Opt("Rgba"))>>),
    FlexContainerHighlightConfig |-> Default(<<Opt("LineStyle"), Opt("LineStyle"),
        Opt("LineStyle"), Opt("BoxStyle"), Opt("BoxStyle"), Opt("BoxStyle"),
        Opt("BoxStyle"), Opt("LineStyle")>>),
    FlexItemHighlightConfig |-> Default(<<Opt("BoxStyle"), Opt("LineStyle"),
        Opt("LineStyle")>>),
    LineStyle |-> Default(<<In("dom", Opt("Rgba")), Opt("LineStylePattern")>>),
    LineStylePattern |-> Enum,
    BoxStyle |-> Default(<<In("dom", Opt("Rgba")), In("dom", Opt("Rgba"))>>),
    ContrastAlgorithm |-> Enum,
    HighlightConfig |-> Default(<<In("dom", Opt("Rgba")), In("dom", Opt("Rgba")),
        In("dom", Opt("Rgba")), In("dom", Opt("Rgba")), In("dom", Opt("Rgba")),
        In("dom", Opt("Rgba")), In("dom", Opt("Rgba")), In("dom", Opt("Rgba")),
        Opt("ColorFormat"), Opt("GridHighlightConfig"),
        Opt("FlexContainerHighlightConfig"), Opt("FlexItemHighlightConfig"),
        Opt("ContrastAlgorithm"), Opt("ContainerQueryContainerHighlightConfig")>>),
    ColorFormat |-> Enum,
    GridNodeHighlightConfig |-> Default(<<One("GridHighlightConfig"),
        In("dom", One("NodeId"))>>),
    FlexNodeHighlightConfig |-> Default(<<One("FlexContainerHighlightConfig"),
        In("dom", One("NodeId"))>>),
    ScrollSnapContainerHighlightConfig |-> Default(<<Opt("LineStyle"),
        Opt("LineStyle"), In("dom", Opt("Rgba")), In("dom", Opt("Rgba"))>>),
    ScrollSnapHighlightConfig |-> Default(<<One("ScrollSnapContainerHighlightConfig"),
        In("dom", One("NodeId"))>>),
    HingeConfig |-> Default(<<In("dom", One("Rect")), In("dom", Opt("Rgba")),
        In("dom", Opt("Rgba"))>>), DisplayCutoutShape |-> Enum,
    DisplayCutoutConfig |-> Plain(<<In("dom", One("Rect")),
        One("DisplayCutoutShape"), In("dom", Opt("Rgba"))>>),
    WindowControlsOverlayConfig |-> Bare,
    ContainerQueryHighlightConfig |-> Default(<<One("ContainerQueryContainerHighlightConfig"),
        In("dom", One("NodeId"))>>),
    ContainerQueryContainerHighlightConfig |-> Default(<<Opt("LineStyle"),
        Opt("LineStyle")>>),
    IsolatedElementHighlightConfig |-> Default(<<One("IsolationModeHighlightConfig"),
        In("dom", One("NodeId"))>>),
    IsolationModeHighlightConfig |-> Default(<<In("dom", Opt("Rgba")),
        In("dom", Opt("Rgba")), In("dom", Opt("Rgba"))>>), InspectMode |-> Enum,
    InspectedElementAnchorConfig |-> Default(<<In("dom", Opt("NodeId")),
        In("dom", Opt("BackendNodeId"))>>)]

PageTypes == [
    FrameId |-> Alias, AdFrameType |-> Enum, AdFrameExplanation |-> Enum,
    AdFrameStatus |-> Plain(<<One("AdFrameType"), OptMany("AdFrameExplanation")>>),
    SecureContextType |-> Enum, CrossOriginIsolatedContextType |-> Enum,
    GatedApiFeatures |-> Enum, PermissionsPolicyFeature |-> Enum,
    PermissionsPolicyBlockReason |-> Enum,
    PermissionsPolicyBlockLocator |-> Plain(<<One("FrameId"),
        One("PermissionsPolicyBlockReason")>>),
    PermissionsPolicyFeatureState |-> Plain(<<One("PermissionsPolicyFeature"),
        Opt("PermissionsPolicyBlockLocator")>>), OriginTrialTokenStatus |-> Enum,
    OriginTrialStatus |-> Enum, OriginTrialUsageRestriction |-> Enum,
    OriginTrialToken |-> Plain(<<In("network", One("TimeSinceEpoch")),
        One("OriginTrialUsageRestriction")>>),
    OriginTrialTokenWithStatus |-> Plain(<<Opt("OriginTrialToken"),
        One("OriginTrialTokenStatus")>>),
    OriginTrial |-> Plain(<<One("OriginTrialStatus"),
        Many("OriginTrialTokenWithStatus")>>), SecurityOriginDetails |-> Bare,
    Frame |-> Plain(<<One("FrameId"), Opt("FrameId"),
        In("network", One("LoaderId")), Opt("SecurityOriginDetails"),
        Opt("AdFrameStatus"), One("SecureContextType"),
        One("CrossOriginIsolatedContextType"), Many("GatedApiFeatures")>>),
    FrameResource |-> Plain(<<In("network", One("ResourceType")),
        In("network", Opt("TimeSinceEpoch"))>>),
    FrameResourceTree |-> Plain(<<One("Frame"), OptMany("FrameResourceTree"),
        Many("FrameResource")>>),
    FrameTree |-> Plain(<<One("Frame"), OptMany("FrameTree")>>),
    ScriptIdentifier |-> Alias, TransitionType |-> Enum,
    NavigationEntry |-> Plain(<<One("TransitionType")>>),
    ScreencastFrameMetadata |-> Default(<<In("network", Opt("TimeSinceEpoch"))>>),
    DialogType |-> Enum, AppManifestError |-> Bare,
    AppManifestParsedProperties |-> Bare, LayoutViewport |-> Bare,
    VisualViewport |-> Bare, Viewport |-> Bare, FontFamilies |-> Bare,
    ScriptFontFamilies |-> Default(<<One("FontFamilies")>>), FontSizes |-> Bare,
    ClientNavigationReason |-> Enum, ClientNavigationDisposition |-> Enum,
    InstallabilityErrorArgument |-> Bare,
    InstallabilityError |-> Default(<<Many("InstallabilityErrorArgument")>>),
    ReferrerPolicy |-> Enum, CompilationCacheParams |-> Bare, FileFilter |-> Bare,
    FileHandler |-> Default(<<OptMany("FileFilter")>>), ImageResource |-> Bare,
    LaunchHandler |-> Bare, ProtocolHandler |-> Bare, RelatedApplication |-> Bare,
    ScopeExtension |-> Bare, Screenshot |-> Default(<<One("ImageResource")>>),
    ShareTarget |-> Default(<<OptMany("FileFilter")>>), Shortcut |-> Bare,
    WebAppManifest |-> Default(<<OptMany("FileHandler"), OptMany("ImageResource"),
        Opt("LaunchHandler"), OptMany("ProtocolHandler"),
        OptMany("RelatedApplication"), OptMany("ScopeExtension"),
        OptMany("Screenshot"), Opt("ShareTarget"), OptMany("Shortcut")>>),
    NavigationType |-> Enum, BackForwardCacheNotRestoredReason |-> Enum,
    BackForwardCacheNotRestoredReasonType |-> Enum,
    BackForwardCacheBlockingDetails |-> Bare,
    BackForwardCacheNotRestoredExplanation |-> Plain(<<One("BackForwardCacheNotRestoredReasonType"),
        One("BackForwardCacheNotRestoredReason"),
        OptMany("BackForwardCacheBlockingDetails")>>),
    BackForwardCacheNotRestoredExplanationTree |-> Default(<<Many("BackForwardCacheNotRestoredExplanation"),
        Many("BackForwardCacheNotRestoredExplanationTree")>>)]

PerformanceTypes == [Metric |-> Bare]

PerformanceTimelineTypes == [
    LargestContentfulPaint |-> Default(<<In("network", One("TimeSinceEpoch")),
        In("network", One("TimeSinceEpoch")), In("dom", Opt("BackendNodeId"))>>),
    LayoutShiftAttribution |-> Default(<<In("dom", One("Rect")),
        In("dom", One("Rect")), In("dom", Opt("BackendNodeId"))>>),
    LayoutShift |-> Default(<<In("network", One("TimeSinceEpoch")),
        Many("LayoutShiftAttribution")>>),
    TimelineEvent |-> Default(<<In("page", One("FrameId")),
        In("network", One("TimeSinceEpoch")), Opt("LargestContentfulPaint"),
        Opt("LayoutShift")>>)]

PreloadTypes == [
    RuleSetId |-> Alias,
    RuleSet |-> Default(<<One("RuleSetId"), In("network", One("LoaderId")),
        In("dom", Opt("BackendNodeId")), In("network", Opt("RequestId")),
        Opt("RuleSetErrorType")>>), RuleSetErrorType |-> Enum,
    SpeculationAction |-> Enum, SpeculationTargetHint |-> Enum,
    PreloadingAttemptKey |-> Plain(<<In("network", One("LoaderId")),
        One("SpeculationAction"), Opt("SpeculationTargetHint")>>),
    PreloadingAttemptSource |-> Plain(<<One("PreloadingAttemptKey"),
        Many("RuleSetId"), In("dom", Many("BackendNodeId"))>>),
    PreloadPipelineId |-> Alias, PrerenderFinalStatus |-> Enum,
    PreloadingStatus |-> Enum, PrefetchStatus |-> Enum,
    PrerenderMismatchedHeaders |-> Bare]

ProfilerTypes == [
    ProfileNode |-> Default(<<In("runtime", One("CallFrame")),
        OptMany("PositionTickInfo")>>),
    Profile |-> Default(<<Many("ProfileNode")>>), PositionTickInfo |-> Bare,
    CoverageRange |-> Bare, FunctionCoverage |-> Default(<<Many("CoverageRange")>>),
    ScriptCoverage |-> Default(<<In("runtime", One("ScriptId")),
        Many("FunctionCoverage")>>)]

PwaTypes == [
    FileHandlerAccept |-> Bare,
    FileHandler |-> Default(<<Many("FileHandlerAccept")>>), DisplayMode |-> Enum]

RuntimeTypes == [
    ScriptId |-> Alias,
    SerializationOptions |-> Plain(<<One("SerializationOptionsSerialization")>>),
    SerializationOptionsSerialization |-> Enum,
    DeepSerializedValue |-> Plain(<<One("DeepSerializedValueType")>>),
    DeepSerializedValueType |-> Enum, RemoteObjectId |-> Alias,
    UnserializableValue |-> Alias,
    RemoteObject |-> Plain(<<One("RemoteObjectType"), Opt("RemoteObjectSubtype"),
        Opt("UnserializableValue"), Opt("DeepSerializedValue"),
        Opt("RemoteObjectId"), Opt("ObjectPreview"), Opt("CustomPreview")>>),
    RemoteObjectType |-> Enum, RemoteObjectSubtype |-> Enum,
    CustomPreview |-> Default(<<Opt("RemoteObjectId")>>),
    ObjectPreview |-> Plain(<<One("ObjectPreviewType"), Opt("ObjectPreviewSubtype"),
        Many("PropertyPreview"), OptMany("EntryPreview")>>),
    ObjectPreviewType |-> Enum, ObjectPreviewSubtype |-> Enum,
    PropertyPreview |-> Plain(<<One("PropertyPreviewType"), Opt("ObjectPreview"),
        Opt("PropertyPreviewSubtype")>>), PropertyPreviewType |-> Enum,
    PropertyPreviewSubtype |-> Enum,
    EntryPreview |-> Plain(<<Opt("ObjectPreview"), One("ObjectPreview")>>),
    PropertyDescriptor |-> Default(<<Opt("RemoteObject"), Opt("RemoteObject"),
        Opt("RemoteObject"), Opt("RemoteObject")>>),
    InternalPropertyDescriptor |-> Default(<<Opt("RemoteObject")>>),
    PrivatePropertyDescriptor |-> Default(<<Opt("RemoteObject"),
        Opt("RemoteObject"), Opt("RemoteObject")>>),
    CallArgument |-> Default(<<Opt("UnserializableValue"), Opt("RemoteObjectId")>>),
    ExecutionContextId |-> Alias,
    ExecutionContextDescription |-> Default(<<One("ExecutionContextId")>>),
    ExceptionDetails |-> Default(<<Opt("ScriptId"), Opt("StackTrace"),
        Opt("RemoteObject"), Opt("ExecutionContextId")>>), Timestamp |-> Alias,
    TimeDelta |-> Alias, CallFrame |-> Default(<<One("ScriptId")>>),
    StackTrace |-> Default(<<Many("CallFrame"), OptBox("StackTrace"),
        Opt("StackTraceId")>>), UniqueDebuggerId |-> Alias,
    StackTraceId |-> Default(<<Opt("UniqueDebuggerId")>>)]

SchemaTypes == [Domain |-> Bare]

SecurityTypes == [
    CertificateId |-> Alias, MixedContentType |-> Enum, SecurityState |-> Enum,
    CertificateSecurityState |-> Default(<<In("network", One("TimeSinceEpoch")),
        In("network", One("TimeSinceEpoch"))>>), SafetyTipStatus |-> Enum,
    SafetyTipInfo |-> Plain(<<One("SafetyTipStatus")>>),
    VisibleSecurityState |-> Plain(<<One("SecurityState"),
        Opt("CertificateSecurityState"), Opt("SafetyTipInfo")>>),
    SecurityStateExplanation |-> Plain(<<One("SecurityState"),
        One("MixedContentType")>>),
    InsecureContentStatus |-> Plain(<<One("SecurityState"), One("SecurityState")>>),
    CertificateErrorAction |-> Enum]

ServiceWorkerTypes == [
    RegistrationId |-> Alias,
    ServiceWorkerRegistration |-> Default(<<One("RegistrationId")>>),
    ServiceWorkerVersionRunningStatus |-> Enum, ServiceWorkerVersionStatus |-> Enum,
    ServiceWorkerVersion |-> Plain(<<One("RegistrationId"),
        One("ServiceWorkerVersionRunningStatus"), One("ServiceWorkerVersionStatus"),
        In("target", OptMany("TargetId")), In("target", Opt("TargetId"))>>),
    ServiceWorkerErrorMessage |-> Default(<<One("RegistrationId")>>)]

SmartCardEmulationTypes == [
    ResultCode |-> Enum, ShareMode |-> Enum, Disposition |-> Enum,
    ConnectionState |-> Enum, ReaderStateFlags |-> Bare, ProtocolSet |-> Bare,
    Protocol |-> Enum, ReaderStateIn |-> Default(<<One("ReaderStateFlags")>>),
    ReaderStateOut |-> Default(<<One("ReaderStateFlags")>>)]

StorageTypes == [
    SerializedStorageKey |-> Alias, StorageType |-> Enum,
    UsageForType |-> Plain(<<One("StorageType")>>), TrustTokens |-> Bare,
    SharedStorageAccessScope |-> Enum, SharedStorageAccessMethod |-> Enum,
    SharedStorageEntry |-> Bare,
    SharedStorageMetadata |-> Default(<<In("network", One("TimeSinceEpoch"))>>),
    SharedStoragePrivateAggregationConfig |-> Bare,
    SharedStorageReportingMetadata |-> Bare,
    SharedStorageUrlWithMetadata |-> Default(<<Many("SharedStorageReportingMetadata")>>),
    SharedStorageAccessParams |-> Default(<<Opt("SharedStoragePrivateAggregationConfig"),
        OptMany("SharedStorageUrlWithMetadata"), In("target", Opt("TargetId"))>>),
    StorageBucketsDurability |-> Enum,
    StorageBucket |-> Default(<<One("SerializedStorageKey")>>),
    StorageBucketInfo |-> Plain(<<One("StorageBucket"),
        In("network", One("TimeSinceEpoch")), One("StorageBucketsDurability")>>),
    RelatedWebsiteSet |-> Bare]

SystemInfoTypes == [
    GpuDevice |-> Bare, Size |-> Bare,
    VideoDecodeAcceleratorCapability |-> Default(<<One("Size"), One("Size")>>),
    VideoEncodeAcceleratorCapability |-> Default(<<One("Size")>>),
    SubsamplingFormat |-> Enum, ImageType |-> Enum,
    GpuInfo |-> Default(<<Many("GpuDevice"),
        Many("VideoDecodeAcceleratorCapability"),
        Many("VideoEncodeAcceleratorCapability")>>), ProcessInfo |-> Bare]

TargetTypes == [
    TargetId |-> Alias, SessionId |-> Alias,
    TargetInfo |-> Default(<<One("TargetId"), Opt("TargetId"), Opt("TargetId"),
        In("page", Opt("FrameId")), In("page", Opt("FrameId")),
        In("browser", Opt("BrowserContextId"))>>), FilterEntry |-> Bare,
    TargetFilter |-> AliasOf(<<Many("FilterEntry")>>), RemoteLocation |-> Bare,
    WindowState |-> Enum]

TracingTypes == [
    MemoryDumpConfig |-> Alias,
    TraceConfig |-> Default(<<Opt("TraceConfigRecordMode"),
        Opt("MemoryDumpConfig")>>), TraceConfigRecordMode |-> Enum,
    StreamFormat |-> Enum, StreamCompression |-> Enum,
    MemoryDumpLevelOfDetail |-> Enum, TracingBackend |-> Enum]

WebAudioTypes == [
    GraphObjectId |-> Alias, ContextType |-> Enum, ContextState |-> Enum,
    NodeType |-> Alias, ChannelCountMode |-> Enum, ChannelInterpretation |-> Enum,
    ParamType |-> Alias, AutomationRate |-> Enum, ContextRealtimeData |-> Bare,
    BaseAudioContext |-> Plain(<<One("GraphObjectId"), One("ContextType"),
        One("ContextState"), Opt("ContextRealtimeData")>>),
    AudioListener |-> Default(<<One("GraphObjectId"), One("GraphObjectId")>>),
    AudioNode |-> Plain(<<One("GraphObjectId"), One("GraphObjectId"),
        One("NodeType"), One("ChannelCountMode"), One("ChannelInterpretation")>>),
    AudioParam |-> Plain(<<One("GraphObjectId"), One("GraphObjectId"),
        One("GraphObjectId"), One("ParamType"), One("AutomationRate")>>)]

WebAuthnTypes == [
    AuthenticatorId |-> Alias, AuthenticatorProtocol |-> Enum,
    Ctap2Version |-> Enum, AuthenticatorTransport |-> Enum,
    VirtualAuthenticatorOptions |-> Plain(<<One("AuthenticatorProtocol"),
        Opt("Ctap2Version"), One("AuthenticatorTransport")>>), Credential |-> Bare]

WebMcpTypes == [
    Annotation |-> Bare, InvocationStatus |-> Enum,
    Tool |-> Default(<<Opt("Annotation"), In("page", One("FrameId")),
        In("dom", Opt("BackendNodeId")), In("runtime", Opt("StackTrace"))>>),
    RemovedTool |-> Default(<<In("page", One("FrameId"))>>)]
=============================================================================
